---- MODULE Spec2Model ----
(***************************************************************************)
(* State-machine model of the client-side chat engine of the Messagingapp  *)
(* repository: ChatManager (src/lib/chat.ts, and its second copy           *)
(* src/unnamed/part_001) together with the parts of AuthManager            *)
(* (src/lib/auth.ts) and of the Remote Store schema (src/supabase) that    *)
(* the chat operations depend on.                                          *)
(*                                                                         *)
(* The repository holds two copies of ChatManager.  The variable impl      *)
(* fixes which copy a behaviour runs: "lib" is src/lib/chat.ts, "p1" is    *)
(* src/unnamed/part_001.  A property is established only if it holds for   *)
(* both.                                                                   *)
(*                                                                         *)
(* src/lib/chat.ts reads identifiers that are declared nowhere:            *)
(*   line 274  user.id                 (createChat, direct-chat search)    *)
(*   line 368  message.id, and line 386/416 messageId                      *)
(*                                     (createChat, after the local save)  *)
(*   line 430 and line 611  s.saveChatsToStorage()                         *)
(* Evaluating an undeclared identifier throws a ReferenceError in          *)
(* JavaScript; the model gives these lines that behaviour.                 *)
(*                                                                         *)
(* Three specifications share the variables and the actions:               *)
(*   Spec       chat creation, from a fresh installation                   *)
(*   SpecSend   sendMessage and removeGroupMember on a cached group chat   *)
(*   SpecRetry  sendMessage and the retry timer on a cached direct chat    *)
(***************************************************************************)
EXTENDS Integers, Sequences, FiniteSets, TLC

(***************************************************************************)
(* Bounds of the model and constants of the program.                       *)
(***************************************************************************)
MaxChats == 2      \* chat rows the Remote Store hands out ids for
MaxMsgs == 2       \* message ids sendMessage may generate
MaxPasses == 2     \* retryPendingMessages passes in progress at once
MaxClock == 3      \* instants the clock can show after the first
MaxCalls == 2      \* sendMessage calls of the application in progress at once
MaxUserSends == 1  \* sendMessage calls of the user while the queue is watched
MaxLeft == 2       \* participant rows that get left_at set
MaxRetries == 5    \* "message.retry_count < 5"

Users == {"a", "b", "c"}            \* profile ids (= auth uids)
NoUser == "none"
Contents == {"hi"}
NoName == "null"
Names == {"team"}
Impl == {"lib", "p1"}

ChatIds == 1..MaxChats

VARIABLES
  impl,             \* which copy of ChatManager runs
  currentUser,      \* AuthManager.currentUser (its id), or NoUser
  session,          \* supabase.auth session user id, or NoUser
  keys,             \* EncryptionManager holds a key pair
  stAuth,           \* AsyncStorage 'private_key' and 'user_profile'
  rProfiles,        \* Remote Store: ids of the profiles rows
  rChats,           \* Remote Store: chats rows, id -> row
  rParts,           \* Remote Store: chat_participants rows
  rLeft,            \* Remote Store: the <<chat_id, user_id>> of the rows with left_at set
  rMsgs,            \* Remote Store: messages rows
  rStatus,          \* Remote Store: message_statuses rows
  chats,            \* ChatManager.chats, id -> Chat
  messages,         \* ChatManager.messages, chat id -> Message[]
  mStatus,          \* the status entries of the cached Messages
  retryTimer,       \* ChatManager.retryTimer is set
  calls,            \* sendMessage calls of the application, by their position
  pendingMessages,  \* keys of ChatManager.pendingMessages, in insertion order
  pmObj,            \* the PendingMessage objects, by id
  stChats,          \* AsyncStorage 'local_chats'
  stMessages,       \* AsyncStorage 'local_messages'
  stPending,        \* AsyncStorage 'pending_messages'
  passes,           \* retryPendingMessages invocations in progress
  nextMsg,          \* next fresh message id
  nextChat,         \* next fresh chat id
  bus,              \* Realtime Bus: handles the application holds, events delivered
  now,              \* the clock that new Date() and the store's now() read
  attempts,         \* history: sendMessage calls made by retry passes, per entry
  scen,             \* history: progress of the outage-and-recovery scenario, or "cleared"
  last              \* history: the operation that completed last

vars == <<impl, currentUser, session, keys, stAuth, rProfiles, rChats, rParts, rLeft, rMsgs, rStatus,
          chats, messages, pendingMessages, pmObj, stChats, stMessages,
          stPending, passes, nextMsg, nextChat, now, mStatus, retryTimer,
          calls, bus, attempts, scen, last>>

authVars == <<currentUser, session, keys, stAuth>>
remoteVars == <<rProfiles, rChats, rParts, rLeft, rMsgs, rStatus>>
cacheVars == <<chats, messages, stChats, stMessages>>
pendVars == <<pendingMessages, pmObj, stPending>>

(***************************************************************************)
(* Finite maps.                                                            *)
(***************************************************************************)
Put(f, k, v) == [x \in (DOMAIN f) \cup {k} |-> IF x = k THEN v ELSE f[x]]
Restrict(f, S) == [x \in S |-> f[x]]
EmptyMap == [x \in {} |-> 0]

Range(q) == {q[i] : i \in 1..Len(q)}

\* Keys of a JavaScript Map, in insertion order: set() of a present key keeps
\* its place, set() of a new key appends, delete() removes.
MapSet(q, k) == IF k \in Range(q) THEN q ELSE Append(q, k)
MapDelete(q, k) == SelectSeq(q, LAMBDA x : x # k)

(***************************************************************************)
(* The record of the operation that completed last.                        *)
(***************************************************************************)
NoLast ==
  [op |-> "none", outcome |-> "none", err |-> "none", caller |-> NoUser,
   chat |-> 0, msg |-> 0, cached |-> FALSE, member |-> FALSE, clear |-> FALSE,
   ins |-> "none", enc |-> FALSE, appended |-> FALSE, wrote |-> FALSE,
   group |-> FALSE, others |-> <<>>, created |-> 0, ret |-> 0, prior |-> 0,
   del |-> FALSE, clean |-> FALSE, nofault |-> FALSE, fault |-> "none",
   list |-> <<>>, status |-> "none", was |-> "none", held |-> {},
   overlap |-> FALSE, refs |-> <<>>]

\* AsyncStorage after multiRemove(['user_session', 'private_key',
\* 'user_profile']), and after the multiSet of createProfileForAuthUser for u.
NoAuthStore == [private_key |-> NoUser, user_profile |-> NoUser]
AuthStoreOf(u) == [private_key |-> u, user_profile |-> u]

\* The Realtime Bus before any subscribeToChat call and any event.
NoBus == [handles |-> {}, once |-> {}, twice |-> {}]

(***************************************************************************)
(* Outcomes of the calls the handlers make.  A Remote Store call returns   *)
(* its rows ("ok"), returns an error result ("error") or throws ("throw"); *)
(* an AsyncStorage write succeeds or throws.                               *)
(***************************************************************************)
NetOutcomes == {"ok", "error", "throw"}
StorageOutcomes == {"ok", "fail1", "fail2"}
PendSaveOutcomes == {"ok", "fail"}

(***************************************************************************)
(* LocalCache persistence.                                                 *)
(***************************************************************************)
\* saveChatsToStorage: two setItem calls in a try; a failure is logged and
\* swallowed.  "fail1": the first write throws, "fail2": the second does.
saveChatsToStorage(o, c, m, sc, sm) ==
  [stChats |-> IF o \in {"ok", "fail2"} THEN c ELSE sc,
   stMessages |-> IF o = "ok" THEN m ELSE sm]

\* savePendingMessages: writes Array.from(pendingMessages.values()).
\* P is [pend, obj, st]: the keys of the map in insertion order, the objects,
\* the stored blob.
savePendingMessages(o, P) ==
  IF o = "ok" THEN [P EXCEPT !.st = [i \in 1..Len(P.pend) |-> P.obj[P.pend[i]]]] ELSE P

PendingNow == [pend |-> pendingMessages, obj |-> pmObj, st |-> stPending]

(***************************************************************************)
(* Identity and encryption.                                                *)
(***************************************************************************)
\* AuthManager.getCurrentUserSafe rejects when there is no current user;
\* the p1 copy reads the auth session instead.
getCurrentUserSafe == currentUser
getSessionUser == session
Caller == IF impl = "lib" THEN getCurrentUserSafe ELSE getSessionUser

\* EncryptionManager.encryptMessage: fails unless a key pair is bound.  Its
\* result is the ciphertext bound to the chat, or an empty result (the call
\* site provides for a falsy one).  Plaintext(content) is the content as it
\* stands in a row when it is written unencrypted.
Ciphertext(content, chatId) == <<"enc", chatId, content>>
Plaintext(content) == <<"plain", 0, content>>
EmptyResult == <<>>
encryptMessage(kb, content, chatId, e) ==
  [threw |-> ~kb,
   text |-> IF e = "empty" THEN EmptyResult ELSE Ciphertext(content, chatId)]

(***************************************************************************)
(* sendMessage.                                                            *)
(***************************************************************************)
\* A cache lookup that finds every chat id.
ChatCached_m(c, chatId) == TRUE

ChatCached(c, chatId) == chatId \in DOMAIN c

ParticipantsOf(c, chatId) ==
  IF chatId \in DOMAIN c THEN c[chatId].participants ELSE {}

\* A participant check that accepts every caller.
IsParticipant_m(c, chatId, u) == TRUE

IsParticipant(c, chatId, u) == u \in ParticipantsOf(c, chatId)

MessagesOf(m, chatId) == IF chatId \in DOMAIN m THEN m[chatId] ELSE <<>>

NewMessage(id, chatId, u, content) ==
  [id |-> id, chat_id |-> chatId, sender_id |-> u, content |-> content,
   created_at |-> now]

\* A PendingMessage that starts with one retry counted.
NewPending_m(id, chatId, content) ==
  [id |-> id, chat_id |-> chatId, content |-> content, retry_count |-> 1]

NewPending(id, chatId, content) ==
  [id |-> id, chat_id |-> chatId, content |-> content, retry_count |-> 0]

\* this.pendingMessages.set(messageId, pendingMessage)
EnqueuePending(P, id, chatId, content) ==
  [P EXCEPT !.pend = MapSet(@, id),
            !.obj = Put(@, id, NewPending(id, chatId, content))]

\* The catch block of sendMessage: enqueue, save, rethrow.
SendCatch(P, id, chatId, content, o) ==
  savePendingMessages(o, EnqueuePending(P, id, chatId, content))

\* The messages row sendMessage inserts:
\* "content: encryptedContent || message.content || null".
MessageRow(id, chatId, u, content, encryptedContent) ==
  [id |-> id, chat_id |-> chatId, sender_id |-> u,
   content |-> IF encryptedContent # EmptyResult THEN encryptedContent
               ELSE Plaintext(content)]

\* upsert on (message_id, user_id)
UpsertStatus(rs, id, u, status) ==
  {r \in rs : ~(r.message_id = id /\ r.user_id = u)}
    \cup {[message_id |-> id, user_id |-> u, status |-> status]}

\* What a sendMessage call leaves behind when nothing was touched.
SendUnchanged ==
  [outcome |-> "threw", err |-> "auth", id |-> 0, ins |-> "none", enc |-> FALSE,
   chats |-> chats, messages |-> messages, P |-> PendingNow,
   stChats |-> stChats, stMessages |-> stMessages,
   rMsgs |-> rMsgs, rStatus |-> rStatus, nextMsg |-> nextMsg]

\* A failure inside the try block before the local append.
SendEarlyFail(err, enc, id, chatId, content, o) ==
  [SendUnchanged EXCEPT !.err = err, !.id = id, !.enc = enc,
                        !.nextMsg = id + 1,
                        !.P = SendCatch(PendingNow, id, chatId, content, o)]

\* The optimistic local apply: push the message, update the chat, save.
\* "content.substring(0, 100)" is the content itself for the contents used.
LocalAppend(R, id, chatId, u, content, o) ==
  LET m2 == Put(messages, chatId,
                Append(MessagesOf(messages, chatId), NewMessage(id, chatId, u, content)))
      c2 == [chats EXCEPT ![chatId].last_message = content,
                          ![chatId].updated_at = now]
      sv == saveChatsToStorage(o, c2, m2, stChats, stMessages)
  IN  [R EXCEPT !.messages = m2, !.chats = c2, !.id = id, !.enc = TRUE,
                !.nextMsg = id + 1,
                !.stChats = sv.stChats, !.stMessages = sv.stMessages]

\* The remote write of src/lib/chat.ts, lines 544-608.  The insert is a call
\* to an external service: it can succeed, return an error or throw.  (The
\* migrations in src/supabase declare messages.id as uuid, which an id of
\* the form "msg_..." does not satisfy; a store with that schema answers
\* every insert with an error.)
RemoteInsert(R, id, chatId, u, content, oc) ==
  IF oc.ins = "ok"
  THEN [R EXCEPT !.ins = "ok",
                 !.rMsgs = @ \cup {MessageRow(id, chatId, u, content,
                                     encryptMessage(keys, content, chatId, oc.enc).text)},
                 !.rStatus = IF oc.st = "ok" THEN UpsertStatus(@, id, u, "sent") ELSE @]
  ELSE [R EXCEPT !.ins = oc.ins,
                 !.P = SendCatch(@, id, chatId, content, oc.svp1)]

\* Line 611: "await markActive(currentUser.id);s.saveChatsToStorage();".
\* s is not declared: the statement throws a ReferenceError, which the outer
\* catch (lines 617-634) turns into an enqueue and a rethrow.
SendTail(R, id, chatId, content, oc) ==
  [R EXCEPT !.outcome = "threw", !.err = "reference",
            !.P = SendCatch(@, id, chatId, content, oc.svp2)]

\* sendMessage with the insert issued before encryptMessage has settled.
sendMessage_m(u, chatId, content, oc) ==
  LET id == nextMsg IN
  IF u = NoUser THEN SendUnchanged
  ELSE IF ~ChatCached(chats, chatId)
    THEN SendEarlyFail("notfound", FALSE, id, chatId, content, oc.svp2)
  ELSE IF ~IsParticipant(chats, chatId, u)
    THEN SendEarlyFail("participant", FALSE, id, chatId, content, oc.svp2)
  ELSE IF oc.q = "throw"
    THEN SendEarlyFail("query", FALSE, id, chatId, content, oc.svp2)
  ELSE IF encryptMessage(keys, content, chatId, oc.enc).threw
    THEN RemoteInsert(SendEarlyFail("encrypt", TRUE, id, chatId, content, oc.svp2),
                      id, chatId, u, content, oc)
  ELSE SendTail(
         RemoteInsert(LocalAppend(SendUnchanged, id, chatId, u, content, oc.sv),
                      id, chatId, u, content, oc),
         id, chatId, content, oc)

\* sendMessage of src/lib/chat.ts, called by u.
sendMessage(u, chatId, content, oc) ==
  LET id == nextMsg IN
  IF u = NoUser THEN SendUnchanged
  ELSE IF ~ChatCached(chats, chatId)
    THEN SendEarlyFail("notfound", FALSE, id, chatId, content, oc.svp2)
  ELSE IF ~IsParticipant(chats, chatId, u)
    THEN SendEarlyFail("participant", FALSE, id, chatId, content, oc.svp2)
  ELSE IF oc.q = "throw"
    THEN SendEarlyFail("query", FALSE, id, chatId, content, oc.svp2)
  ELSE IF encryptMessage(keys, content, chatId, oc.enc).threw
    THEN SendEarlyFail("encrypt", TRUE, id, chatId, content, oc.svp2)
  ELSE SendTail(
         RemoteInsert(LocalAppend(SendUnchanged, id, chatId, u, content, oc.sv),
                      id, chatId, u, content, oc),
         id, chatId, content, oc)

\* sendMessage of src/unnamed/part_001: no remote write; returns the message.
sendMessage_p1(u, chatId, content, oc) ==
  LET id == nextMsg IN
  IF u = NoUser THEN SendUnchanged
  ELSE IF ~ChatCached(chats, chatId)
    THEN SendEarlyFail("notfound", FALSE, id, chatId, content, oc.svp2)
  ELSE IF ~IsParticipant(chats, chatId, u)
    THEN SendEarlyFail("participant", FALSE, id, chatId, content, oc.svp2)
  ELSE IF oc.q = "throw"
    THEN SendEarlyFail("query", FALSE, id, chatId, content, oc.svp2)
  ELSE IF encryptMessage(keys, content, chatId, oc.enc).threw
    THEN SendEarlyFail("encrypt", TRUE, id, chatId, content, oc.svp2)
  ELSE [LocalAppend(SendUnchanged, id, chatId, u, content, oc.sv)
          EXCEPT !.outcome = "returned", !.err = "none"]

SendCall(u, chatId, content, oc) ==
  IF impl = "lib" THEN sendMessage(u, chatId, content, oc)
  ELSE sendMessage_p1(u, chatId, content, oc)

(***************************************************************************)
(* Remote Store: profiles, chats and chat_participants.                    *)
(***************************************************************************)
\* Every user has a profiles row; user_id is the numeric short id.
ShortIdOf == [u \in Users |-> CASE u = "a" -> "1" [] u = "b" -> "2" [] OTHER -> "3"]

\* The participant refs used, with their characters.
RefText ==
  [r \in {"a", "b", "c", "x", "1", "2", "3", "9", "2.5", ""} |->
     CASE r = "" -> <<>>
       [] r = "2.5" -> <<"2", ".", "5">>
       [] OTHER -> <<r>>]

Digits == {"0", "1", "2", "3", "4", "5", "6", "7", "8", "9"}
DigitValue(d) ==
  CASE d = "0" -> 0 [] d = "1" -> 1 [] d = "2" -> 2 [] d = "3" -> 3
    [] d = "4" -> 4 [] d = "5" -> 5 [] d = "6" -> 6 [] d = "7" -> 7
    [] d = "8" -> 8 [] OTHER -> 9
NaN == 0 - 1

\* "isNaN(Number(participantId))" for texts over digits, "." and letters:
\* Number accepts the empty text (as 0) and decimal literals with an
\* optional fraction.
NumberIsNaN(t) ==
  /\ t # <<>>
  /\ \/ \E i \in 1..Len(t) : t[i] \notin Digits \cup {"."}
     \/ Cardinality({i \in 1..Len(t) : t[i] = "."}) > 1
     \/ \A i \in 1..Len(t) : t[i] \notin Digits

\* "parseInt(participantId)": the value of the leading digits, NaN without.
RECURSIVE LeadingValue(_, _)
LeadingValue(t, acc) ==
  IF t = <<>> \/ Head(t) \notin Digits THEN acc
  ELSE LeadingValue(Tail(t), 10 * acc + DigitValue(Head(t)))
parseInt(t) ==
  IF t = <<>> \/ Head(t) \notin Digits THEN NaN ELSE LeadingValue(t, 0)

NumericRefs == {r \in DOMAIN RefText : ~NumberIsNaN(RefText[r])}
NotFound == "notfound"

\* "!isNaN(Number(participantId))": a numeric ref is looked up by user_id,
\* any other ref by id.
ResolveRef(r) ==
  IF r \in NumericRefs
  THEN IF \E u \in Users : parseInt(RefText[ShortIdOf[u]]) = parseInt(RefText[r])
       THEN CHOOSE u \in Users : parseInt(RefText[ShortIdOf[u]]) = parseInt(RefText[r])
       ELSE NotFound
  ELSE IF r \in Users THEN r ELSE NotFound

ProfileIds(refs) == [i \in 1..Len(refs) |-> ResolveRef(refs[i])]

\* Lines 206-256: the checks createChat makes on its participant list.
\* The last one compares the number of rows ".in('id', profileIds)" returns
\* with profileIds.length.
RefsError(refs) ==
  IF refs = <<>> THEN "noparticipants"
  ELSE IF NotFound \in Range(ProfileIds(refs)) THEN "notfound"
  ELSE IF Cardinality(Range(ProfileIds(refs))) # Len(refs) THEN "mismatch"
  ELSE "none"

PartsOf(rp, c) == {r \in rp : r.chat_id = c}
UsersOf(rp, c) == {r.user_id : r \in PartsOf(rp, c)}

\* left_at is a column of chat_participants: the marks of the rows in rp.
LeftOf(rp) == {p \in rLeft : \E r \in rp : r.chat_id = p[1] /\ r.user_id = p[2]}

\* The users of chat c whose row has left_at unset.
ActiveUsersOf(rp, c) == {u \in UsersOf(rp, c) : <<c, u>> \notin rLeft}

\* UNIQUE (chat_id, user_id) on chat_participants.
UniqueOK(rp, rows) ==
  /\ \A i, j \in 1..Len(rows) : rows[i].user_id = rows[j].user_id => i = j
  /\ \A i \in 1..Len(rows) : rows[i].user_id \notin UsersOf(rp, rows[i].chat_id)

\* delete().eq('id', id), with ON DELETE CASCADE on chat_participants.
DeleteChat(R, id) ==
  [R EXCEPT !.rChats = Restrict(@, DOMAIN @ \ {id}),
            !.rParts = @ \ PartsOf(@, id)]

ParticipantRow(id, u, role) == [chat_id |-> id, user_id |-> u, role |-> role]

(***************************************************************************)
(* createChat.                                                             *)
(***************************************************************************)
\* Outcomes a createChat call can meet: the first Remote Store call that
\* fails (fp) and how (an error result or an exception), the direct-chat
\* search (ex), the compensating delete (del) and the LocalCache write (sv).
CreateDefault ==
  [fp |-> "none", how |-> "error", ex |-> "ok", del |-> "ok", sv |-> "ok"]

CreateOutcomes(u, refs, isGroup) ==
  LET Ex == IF impl = "lib" /\ ~isGroup /\ Len(refs) = 1
            THEN {"ok", "error"} ELSE {"ok"}
      Ins == IF impl = "lib" THEN {"creatorIns", "partsIns"} ELSE {"partsIns"}
      self == u \in Range(ProfileIds(refs))
  IN  IF u = NoUser \/ RefsError(refs) # "none" THEN {CreateDefault}
      ELSE {[CreateDefault EXCEPT !.fp = f] : f \in {"lookup", "verify"}}
        \cup {[CreateDefault EXCEPT !.ex = "throw"] : x \in Ex \ {"ok"}}
        \cup {[CreateDefault EXCEPT !.fp = "chatIns", !.ex = e] : e \in Ex}
        \cup {[CreateDefault EXCEPT !.fp = f, !.how = "throw", !.ex = e] :
                f \in Ins, e \in Ex}
        \cup {[CreateDefault EXCEPT !.fp = f, !.ex = e, !.del = d] :
                f \in Ins, e \in Ex, d \in {"ok", "fail"}}
        \cup {[CreateDefault EXCEPT !.ex = e, !.del = d, !.sv = v] :
                e \in Ex, v \in {"ok", "fail1"},
                d \in IF self THEN {"ok", "fail"} ELSE {"ok"}}

\* What a createChat call leaves behind when nothing was touched.
CreateUnchanged ==
  [outcome |-> "threw", err |-> "auth", ret |-> 0, created |-> 0, del |-> FALSE,
   rChats |-> rChats, rParts |-> rParts, chats |-> chats, messages |-> messages,
   stChats |-> stChats, stMessages |-> stMessages, nextChat |-> nextChat]

CreateFail(R, err) == [R EXCEPT !.outcome = "threw", !.err = err]

\* The chats row: "name: isGroup ? name : null".
ChatRow_m(u, isGroup, name) ==
  [is_group |-> isGroup, name |-> name, created_by |-> u, updated_at |-> now]

ChatRow(u, isGroup, name) ==
  [is_group |-> isGroup, name |-> IF isGroup THEN name ELSE NoName,
   created_by |-> u, updated_at |-> now]

InsertChat(R, u, isGroup, name) ==
  [R EXCEPT !.rChats = Put(@, nextChat, ChatRow(u, isGroup, name)),
            !.created = nextChat, !.nextChat = nextChat + 1]

\* An insert into chat_participants: the rows go in, or the call fails.
\* A failure reported as an error result runs the clean-up
\* "await supabase.from('chats').delete().eq('id', newChatData.id)";
\* a thrown exception leaves the handler before it.
InsertParticipants(R, rows, fails, how, del) ==
  IF ~fails /\ UniqueOK(R.rParts, rows)
  THEN [R EXCEPT !.rParts = @ \cup Range(rows), !.err = "none"]
  ELSE IF fails /\ how = "throw"
  THEN CreateFail(R, "participants")
  ELSE CreateFail([(IF del = "ok" THEN DeleteChat(R, R.created) ELSE R)
                     EXCEPT !.del = TRUE], "participants")

\* Participant rows that make every other participant an admin.
MemberRows_m(id, others) == [i \in 1..Len(others) |-> ParticipantRow(id, others[i], "admin")]

\* "[currentUser.id, ...profileIds]" with the creator as admin.
MemberRows(id, others) == [i \in 1..Len(others) |-> ParticipantRow(id, others[i], "member")]
CreatorRow(id, u) == ParticipantRow(id, u, "admin")

\* "role: userId === authUid ? 'admin' : 'member'"
AllRows_p1(id, u, others) ==
  [i \in 1..(Len(others) + 1) |->
     LET x == (<<u>> \o others)[i]
     IN  ParticipantRow(id, x, IF x = u THEN "admin" ELSE "member")]

\* A createChat that skips the local store of the new Chat.
CacheNewChat_m(R, id, chat, o) == R

\* Lines 344-361: build the Chat, store it in the maps, save.
NewChat(u, others, isGroup, name) ==
  [is_group |-> isGroup, name |-> IF isGroup THEN name ELSE NoName,
   created_by |-> u, participants |-> {u} \cup Range(others),
   last_message |-> NoName, updated_at |-> now]

CacheNewChat(R, id, chat, o) ==
  LET c2 == Put(R.chats, id, chat)
      m2 == Put(R.messages, id, <<>>)
      sv == saveChatsToStorage(o, c2, m2, R.stChats, R.stMessages)
  IN  [R EXCEPT !.chats = c2, !.messages = m2,
                !.stChats = sv.stChats, !.stMessages = sv.stMessages]

\* Lines 258-290 of src/lib/chat.ts, the search for an existing direct chat.
\* The query returns every non-group chat with its participant rows.  For
\* the first chat with two of them the test goes on to evaluate
\* "chatParticipants.includes(user.id)"; user is not declared, so the
\* evaluation throws a ReferenceError.
DirectSearch(rc, rp, ex) ==
  IF ex = "throw" THEN "throw"
  ELSE IF ex = "error" THEN "none"
  ELSE IF \E c \in DOMAIN rc : ~rc[c].is_group /\ Cardinality(PartsOf(rp, c)) = 2
       THEN "reference274"
       ELSE "none"

\* Lines 363-430 of src/lib/chat.ts: the statements that follow the local
\* save read message, encryptedContent and messageId, none of which is
\* declared in createChat.  "message.id" throws a ReferenceError inside the
\* inner try; its catch reads messageId and throws another, which the outer
\* catch (lines 436-443) rethrows.
CreateTail(R) == [R EXCEPT !.outcome = "threw", !.err = "reference368"]

\* createChat of src/lib/chat.ts, called by u.
createChat(u, refs, isGroup, name, oc) ==
  LET others == ProfileIds(refs)
      R0 == CreateUnchanged
      search == IF ~isGroup /\ Len(refs) = 1
                THEN DirectSearch(rChats, rParts, oc.ex) ELSE "none"
      R1 == InsertChat(R0, u, isGroup, name)
      R2 == InsertParticipants(R1, <<CreatorRow(R1.created, u)>>,
                               oc.fp = "creatorIns", oc.how, oc.del)
      R3 == InsertParticipants(R2, MemberRows(R1.created, others),
                               oc.fp = "partsIns", oc.how, oc.del)
  IN  IF u = NoUser THEN R0
      ELSE IF RefsError(refs) # "none" THEN CreateFail(R0, RefsError(refs))
      ELSE IF oc.fp \in {"lookup", "verify"} THEN CreateFail(R0, oc.fp)
      ELSE IF search # "none" THEN CreateFail(R0, search)
      ELSE IF oc.fp = "chatIns" THEN CreateFail(R0, "chatinsert")
      ELSE IF R2.err # "none" THEN R2
      ELSE IF R3.err # "none" THEN R3
      ELSE CreateTail(CacheNewChat(R3, R1.created,
                                   NewChat(u, others, isGroup, name), oc.sv))

\* createChat of src/unnamed/part_001, called by the session's user: no
\* search for an existing chat, one insert for all participants, and the
\* new Chat is returned.
createChat_p1(u, refs, isGroup, name, oc) ==
  LET others == ProfileIds(refs)
      R0 == CreateUnchanged
      R1 == InsertChat(R0, u, isGroup, name)
      R2 == InsertParticipants(R1, AllRows_p1(R1.created, u, others),
                               oc.fp = "partsIns", oc.how, oc.del)
  IN  IF u = NoUser THEN R0
      ELSE IF RefsError(refs) # "none" THEN CreateFail(R0, RefsError(refs))
      ELSE IF oc.fp \in {"lookup", "verify"} THEN CreateFail(R0, oc.fp)
      ELSE IF oc.fp = "chatIns" THEN CreateFail(R0, "chatinsert")
      ELSE IF R2.err # "none" THEN R2
      ELSE [CacheNewChat(R2, R1.created, NewChat(u, others, isGroup, name), oc.sv)
              EXCEPT !.outcome = "returned", !.err = "none", !.ret = R1.created]

CreateCall(u, refs, isGroup, name, oc) ==
  IF impl = "lib" THEN createChat(u, refs, isGroup, name, oc)
  ELSE createChat_p1(u, refs, isGroup, name, oc)

(***************************************************************************)
(* Outcomes a sendMessage call can meet: the profiles query (q), the        *)
(* result of encryptMessage (enc), the                                      *)
(* messages insert (ins), the status upsert (st), the LocalCache write (sv)  *)
(* and the two places that save the pending queue (svp1, svp2).             *)
(***************************************************************************)
SendDefault ==
  [q |-> "ok", enc |-> "ok", ins |-> "ok", st |-> "ok", sv |-> "ok",
   svp1 |-> "ok", svp2 |-> "ok"]

SendOutcomes(SV, PS) ==
  {[SendDefault EXCEPT !.q = "throw", !.svp2 = p2] : p2 \in PS}
    \cup {[SendDefault EXCEPT !.enc = e, !.st = t, !.sv = v, !.svp2 = p2] :
            e \in {"ok", "empty"}, t \in {"ok", "error"}, v \in SV, p2 \in PS}
    \cup {[SendDefault EXCEPT !.ins = i, !.sv = v, !.svp1 = p1, !.svp2 = p2] :
            i \in NetOutcomes \ {"ok"}, v \in SV, p1 \in PS, p2 \in PS}

(***************************************************************************)
(* retryPendingMessages.  setInterval starts a pass every 30 seconds       *)
(* whether or not the previous one has finished, so passes can overlap.    *)
(* A pass holds the array it took from the map (todo) and, while it awaits *)
(* sendMessage, the entry it is retrying (cur).                            *)
(***************************************************************************)
Slots == 1..MaxPasses

\* The sendMessage calls the application can have in progress at once.
Calls == 1..MaxCalls
IdleCall == [pc |-> "idle", id |-> 0, u |-> NoUser, chat |-> 0, content |-> NoName,
             over |-> FALSE]
IdlePass == [on |-> FALSE, todo |-> <<>>, cur |-> 0]

\* The PendingMessage objects some pass or the map still refers to.
Referenced(ps) ==
  UNION {Range(ps[p].todo) \cup (IF ps[p].cur = 0 THEN {} ELSE {ps[p].cur}) : p \in Slots}
Live(ps, pend) == Referenced(ps) \cup Range(pend)

Collect(obj, ps, pend) == Restrict(obj, Live(ps, pend) \cap DOMAIN obj)
CollectAttempts(att, ps, pend) ==
  [id \in Live(ps, pend) |-> IF id \in DOMAIN att THEN att[id] ELSE 0]

\* "message.retry_count < 5"
ShouldRetry(m) == m.retry_count < MaxRetries

\* What the pass does with the entry once sendMessage has settled.
RetryResult(P, id, outcome) ==
  IF outcome = "returned"
  THEN [P EXCEPT !.pend = MapDelete(@, id)]
  ELSE [P EXCEPT !.obj[id].retry_count = @ + 1, !.pend = MapSet(@, id)]

(***************************************************************************)
(* Initial states.                                                         *)
(***************************************************************************)
InitBase ==
  /\ impl \in Impl
  /\ mStatus = {}
  /\ retryTimer = TRUE
  /\ calls = [c \in Calls |-> IdleCall]
  /\ rLeft = {}
  /\ bus = NoBus
  /\ rMsgs = {}
  /\ rStatus = {}
  /\ pendingMessages = <<>>
  /\ pmObj = EmptyMap
  /\ stPending = <<>>
  /\ passes = [p \in Slots |-> IdlePass]
  /\ nextMsg = 1
  /\ attempts = EmptyMap
  /\ scen = "idle"
  /\ last = NoLast

InitCommon ==
  /\ InitBase
  /\ now = 0

\* A fresh installation: nobody signed in, nothing stored.
Init ==
  /\ InitCommon
  /\ currentUser = NoUser
  /\ session = NoUser
  /\ keys = FALSE
  /\ stAuth = NoAuthStore
  /\ rProfiles = Users
  /\ rChats = EmptyMap
  /\ rParts = {}
  /\ chats = EmptyMap
  /\ messages = EmptyMap
  /\ stChats = EmptyMap
  /\ stMessages = EmptyMap
  /\ nextChat = 1

\* User a signed in with keys, after creating group chat 1 with b and c.
InitSend ==
  /\ InitCommon
  /\ currentUser = "a"
  /\ session = "a"
  /\ keys = TRUE
  /\ stAuth = AuthStoreOf("a")
  /\ rProfiles = Users
  /\ rChats = Put(EmptyMap, 1, ChatRow("a", TRUE, "team"))
  /\ rParts = {CreatorRow(1, "a")} \cup Range(MemberRows(1, <<"b", "c">>))
  /\ chats = Put(EmptyMap, 1, NewChat("a", <<"b", "c">>, TRUE, "team"))
  /\ messages = Put(EmptyMap, 1, <<>>)
  /\ stChats = chats
  /\ stMessages = messages
  /\ nextChat = 2

\* User a signed in with keys, after creating group chat 1 with b and c;
\* since then b has created direct chat 2 with c from another device.
InitList ==
  /\ InitBase
  /\ now = 1
  /\ currentUser = "a"
  /\ session = "a"
  /\ keys = TRUE
  /\ stAuth = AuthStoreOf("a")
  /\ rProfiles = Users
  /\ rChats = Put(Put(EmptyMap, 1, [is_group |-> TRUE, name |-> "team",
                                    created_by |-> "a", updated_at |-> 0]),
                  2, [is_group |-> FALSE, name |-> NoName,
                      created_by |-> "b", updated_at |-> 1])
  /\ rParts = {CreatorRow(1, "a"), CreatorRow(2, "b")}
                 \cup Range(MemberRows(1, <<"b", "c">>))
                 \cup Range(MemberRows(2, <<"c">>))
  /\ chats = Put(EmptyMap, 1, [is_group |-> TRUE, name |-> "team",
                               created_by |-> "a", participants |-> {"a", "b", "c"},
                               last_message |-> NoName, updated_at |-> 0])
  /\ messages = Put(EmptyMap, 1, <<>>)
  /\ stChats = chats
  /\ stMessages = messages
  /\ nextChat = 3

\* User a signed in with keys, after creating direct chat 1 with b.
InitRetry ==
  /\ InitCommon
  /\ currentUser = "a"
  /\ session = "a"
  /\ keys = TRUE
  /\ stAuth = AuthStoreOf("a")
  /\ rProfiles = Users
  /\ rChats = Put(EmptyMap, 1, ChatRow("a", FALSE, NoName))
  /\ rParts = {CreatorRow(1, "a")} \cup Range(MemberRows(1, <<"b">>))
  /\ chats = Put(EmptyMap, 1, NewChat("a", <<"b">>, FALSE, NoName))
  /\ messages = Put(EmptyMap, 1, <<>>)
  /\ stChats = chats
  /\ stMessages = messages
  /\ nextChat = 2

(***************************************************************************)
(* AuthManager.                                                            *)
(***************************************************************************)
LoginUsers == {"a", "b"}
NoPassRunning == \A p \in Slots : ~passes[p].on

\* signInAndEnsureProfile: the auth session is established first; then the
\* profile is bound as currentUser, with the private key if one is stored.
\* When the profile step throws only the session is left.
signInAndEnsureProfile(u, k, o) ==
  /\ currentUser = NoUser
  /\ session \in {NoUser, u}
  /\ session' = u
  /\ currentUser' = IF o = "ok" THEN u ELSE currentUser
  /\ keys' = IF o = "ok" THEN k ELSE keys
  /\ stAuth' = stAuth
  /\ last' = NoLast
  /\ scen' = "idle"
  /\ UNCHANGED <<impl, bus, now, mStatus, retryTimer, calls, remoteVars, cacheVars, pendVars, passes, nextMsg,
                 nextChat, attempts>>

\* logout: signOut, multiRemove, currentUser = null, clearKeys in one try
\* whose catch only logs; a throwing step skips the ones after it.
logout(o) ==
  /\ currentUser # NoUser \/ session # NoUser
  /\ session' = IF o = "signOutThrows" THEN session ELSE NoUser
  /\ currentUser' = IF o = "ok" THEN NoUser ELSE currentUser
  /\ keys' = IF o = "ok" THEN FALSE ELSE keys
  /\ stAuth' = IF o = "ok" THEN NoAuthStore ELSE stAuth
  /\ last' = [NoLast EXCEPT !.op = "logout", !.outcome = "returned",
                !.caller = currentUser,
                !.fault = IF o = "ok" THEN "none" ELSE o]
  /\ scen' = "idle"
  /\ UNCHANGED <<impl, bus, now, mStatus, retryTimer, calls, remoteVars, cacheVars, pendVars, passes, nextMsg,
                 nextChat, attempts>>

(***************************************************************************)
(* Operations of ChatManager called by the application.                    *)
(***************************************************************************)
\* The existing direct chat of u and v in the Remote Store, created by u.
PriorDirect(u, v) ==
  LET S == {c \in DOMAIN rChats :
              /\ ~rChats[c].is_group
              /\ rChats[c].created_by = u
              /\ UsersOf(rParts, c) = {u, v}}
  IN  IF S = {} THEN 0 ELSE CHOOSE c \in S : \A d \in S : c <= d

CreateChat(refs, isGroup, name, oc) ==
  \E u \in {Caller} : \E R \in {CreateCall(u, refs, isGroup, name, oc)} :
  LET clean == /\ R.chats = chats /\ R.messages = messages
               /\ R.stChats = stChats /\ R.stMessages = stMessages
  IN  /\ R.nextChat <= MaxChats + 1
      /\ rChats' = R.rChats
      /\ rParts' = R.rParts
      /\ rLeft' = LeftOf(R.rParts)
      /\ chats' = R.chats
      /\ messages' = R.messages
      /\ stChats' = R.stChats
      /\ stMessages' = R.stMessages
      /\ nextChat' = R.nextChat
      /\ last' = [NoLast EXCEPT !.op = "createChat", !.outcome = R.outcome,
                    !.err = R.err, !.caller = u, !.group = isGroup,
                    !.others = ProfileIds(refs), !.refs = refs,
                    !.created = R.created,
                    !.ret = R.ret, !.del = R.del, !.clean = clean,
                    !.nofault = (oc = CreateDefault),
                    !.prior = IF ~isGroup /\ Len(refs) = 1 /\ u # NoUser
                              THEN PriorDirect(u, ResolveRef(refs[1])) ELSE 0]
      /\ scen' = "idle"
      /\ UNCHANGED <<impl, bus, now, mStatus, retryTimer, calls, authVars, rProfiles, rMsgs, rStatus, pendVars, passes, nextMsg,
                     attempts>>

\* The checks addGroupMember and removeGroupMember make before they change
\* the cached Chat: an identity, the chat in the map, a group, the creator.
MemberError_m(u, chatId) ==
  IF u = NoUser THEN "auth"
  ELSE IF chatId \notin DOMAIN chats THEN "notfound"
  ELSE IF ~chats[chatId].is_group THEN "direct"
  ELSE "none"

MemberError(u, chatId) ==
  IF u = NoUser THEN "auth"
  ELSE IF chatId \notin DOMAIN chats THEN "notfound"
  ELSE IF ~chats[chatId].is_group THEN "direct"
  ELSE IF chats[chatId].created_by # u THEN "notcreator"
  ELSE "none"

\* Store the outcome of a membership operation.
ApplyMember(op, u, chatId, err, c2, save, o) ==
  /\ chats' = IF err = "none" THEN c2 ELSE chats
  /\ LET sv == IF err = "none" /\ save
               THEN saveChatsToStorage(o, c2, messages, stChats, stMessages)
               ELSE [stChats |-> stChats, stMessages |-> stMessages]
     IN  /\ stChats' = sv.stChats
         /\ stMessages' = sv.stMessages
         /\ last' = [NoLast EXCEPT !.op = op,
                       !.outcome = IF err = "none" THEN "returned" ELSE "threw",
                       !.err = err, !.caller = u, !.chat = chatId,
                       !.held = IF err = "none"
                                THEN (chats[chatId].participants
                                        \ c2[chatId].participants)
                                     \cup (c2[chatId].participants
                                             \ chats[chatId].participants)
                                ELSE {},
                       !.clean = /\ chats' = chats
                                 /\ sv.stChats = stChats
                                 /\ sv.stMessages = stMessages]
  /\ scen' = "idle"
  /\ UNCHANGED <<impl, bus, now, mStatus, retryTimer, calls, authVars, remoteVars, messages, pendVars, passes,
                 nextMsg, nextChat, attempts>>

\* removeGroupMember: only the cached Chat changes.  Both copies read the
\* caller from AuthManager.
removeGroupMember(chatId, userId, o) ==
  LET u == currentUser
      err == MemberError(u, chatId)
  IN  ApplyMember("removeGroupMember", u, chatId, err,
                  [chats EXCEPT ![chatId].participants = @ \ {userId},
                                ![chatId].updated_at = now], TRUE, o)

\* addGroupMember: the profile of the new member is looked up (pq is the
\* outcome of that query); a user who is already a participant changes
\* nothing, not even updated_at.
addGroupMember(chatId, userId, pq, o) ==
  LET u == Caller
      e1 == MemberError(u, chatId)
      err == IF e1 # "none" THEN e1
             ELSE IF pq # "ok" \/ userId \notin Users THEN "usernotfound"
             ELSE "none"
      added == err = "none" /\ userId \notin chats[chatId].participants
  IN  ApplyMember("addGroupMember", u, chatId, err,
                  IF added
                  THEN [chats EXCEPT ![chatId].participants = @ \cup {userId},
                                     ![chatId].updated_at = now]
                  ELSE chats, added, o)

(***************************************************************************)
(* updateMessageStatus (src/lib/chat.ts only).                             *)
(***************************************************************************)
\* The status user u has for message id in the rows rs.
StatusOf(rs, id, u) ==
  IF \E r \in rs : r.message_id = id /\ r.user_id = u
  THEN (CHOOSE r \in rs : r.message_id = id /\ r.user_id = u).status
  ELSE "none"

\* Some cached list holds message id.
CachedMessage(id) ==
  \E c \in DOMAIN messages : \E i \in 1..Len(messages[c]) : messages[c][i].id = id

\* The upsert into message_statuses (o is its outcome; message_id references
\* messages(id)), then the entry of the cached Message.  Every exception is
\* caught, so the call always returns.
updateMessageStatus(messageId, status, o) ==
  /\ impl = "lib"
  /\ LET u == getCurrentUserSafe
         stored == /\ u # NoUser
                   /\ o = "ok"
                   /\ \E r \in rMsgs : r.id = messageId
     IN  /\ rStatus' = IF stored THEN UpsertStatus(rStatus, messageId, u, status)
                       ELSE rStatus
         /\ mStatus' = IF stored /\ CachedMessage(messageId)
                       THEN UpsertStatus(mStatus, messageId, u, status)
                       ELSE mStatus
         /\ last' = [NoLast EXCEPT !.op = "updateMessageStatus",
                       !.outcome = "returned", !.caller = u, !.msg = messageId,
                       !.status = status,
                       !.was = StatusOf(rStatus, messageId, u)]
  /\ scen' = "idle"
  /\ UNCHANGED <<impl, bus, now, retryTimer, calls, authVars, rProfiles, rChats, rParts, rLeft, rMsgs,
                 cacheVars, pendVars, passes, nextMsg, nextChat, attempts>>

(***************************************************************************)
(* getUserChats.                                                           *)
(***************************************************************************)
\* The ids S as the map holds them, left unsorted.
SortByUpdatedDesc_m(S, f) ==
  LET RECURSIVE Sort(_, _)
      Sort(T, acc) ==
        IF T = {} THEN acc
        ELSE LET m == CHOOSE x \in T : \A y \in T : x <= y
             IN  Sort(T \ {m}, Append(acc, m))
  IN  Sort(S, <<>>)

\* The ids S in descending order of f[id].updated_at.  Array.prototype.sort
\* with "new Date(b.updated_at) - new Date(a.updated_at)" is a stable sort
\* of the map's values; ".order('updated_at', { ascending: false })" is the
\* store's.  Chats with equal updated_at are taken in the order of their ids.
SortByUpdatedDesc(S, f) ==
  LET RECURSIVE Ins(_, _)
      Ins(q, id) ==
        IF q = <<>> THEN <<id>>
        ELSE IF f[id].updated_at > f[Head(q)].updated_at THEN <<id>> \o q
        ELSE <<Head(q)>> \o Ins(Tail(q), id)
      RECURSIVE Sort(_, _)
      Sort(T, acc) ==
        IF T = {} THEN acc
        ELSE LET m == CHOOSE x \in T : \A y \in T : x <= y
             IN  Sort(T \ {m}, Ins(acc, m))
  IN  Sort(S, <<>>)

\* What the caller gets for a chat.
Listed(c, id) ==
  [id |-> id, updated_at |-> c[id].updated_at, participants |-> c[id].participants]

\* The fallback: the cached chats that hold u, sorted.
LocalScan(c, u) ==
  LET q == SortByUpdatedDesc({id \in DOMAIN c : u \in c[id].participants}, c)
  IN  [i \in 1..Len(q) |-> Listed(c, q[i])]

\* chats joined with chat_participants on the caller, ordered by the store.
RemoteChatsOf(u) ==
  SortByUpdatedDesc({id \in DOMAIN rChats : u \in UsersOf(rParts, id)}, rChats)

\* The Chat built from a chats row and the participants query, which yields
\* no rows when it returns an error.  The object has no last_message.
ChatObj(id, pq) ==
  [is_group |-> rChats[id].is_group, name |-> rChats[id].name,
   created_by |-> rChats[id].created_by,
   participants |-> IF pq = "ok" THEN UsersOf(rParts, id) ELSE {},
   last_message |-> NoName, updated_at |-> rChats[id].updated_at]

\* The loop, were it to start from an empty map.
RECURSIVE HydrateUpTo_m(_, _, _, _, _)
HydrateUpTo_m(c, data, n, k, how) ==
  IF n = 0 THEN EmptyMap
  ELSE Put(HydrateUpTo_m(c, data, n - 1, k, how), data[n],
           ChatObj(data[n], IF n = k THEN how ELSE "ok"))

\* The loop over the first n rows of data: each Chat goes into the map.  The
\* participants query of row k meets outcome how.
RECURSIVE HydrateUpTo(_, _, _, _, _)
HydrateUpTo(c, data, n, k, how) ==
  IF n = 0 THEN c
  ELSE Put(HydrateUpTo(c, data, n - 1, k, how), data[n],
           ChatObj(data[n], IF n = k THEN how ELSE "ok"))

\* Outcomes a getUserChats call can meet: the chats query (q), the row whose
\* participants query fails (k, 0 for none) and how, the LocalCache write.
GetDefault == [q |-> "ok", k |-> 0, how |-> "error", sv |-> "ok"]
GetOutcomes ==
  {[GetDefault EXCEPT !.q = x] : x \in {"ok", "error", "throw", "null"}}
    \cup {[GetDefault EXCEPT !.k = i, !.how = h] :
            i \in 1..MaxChats, h \in {"error", "throw"}}

GetUnchanged ==
  [outcome |-> "returned", err |-> "none", list |-> <<>>, fault |-> "none",
   chats |-> chats, stChats |-> stChats, stMessages |-> stMessages]

\* Without an identity getCurrentUserSafe of src/lib/chat.ts rejects; the
\* copy in src/unnamed/part_001 returns an empty list.
GetNoIdentity ==
  IF impl = "lib" THEN [GetUnchanged EXCEPT !.outcome = "threw", !.err = "auth"]
  ELSE GetUnchanged

\* getUserChats, called by u.  (In src/lib/chat.ts the try block declares
\* userChats twice, lines 711 and 737; the first value is never read.)
getUserChats(u, oc) ==
  LET data == RemoteChatsOf(u)
      failed == oc.k \in 1..Len(data)
  IN  IF u = NoUser THEN GetNoIdentity
      ELSE IF oc.q \in {"error", "throw"}
        THEN [GetUnchanged EXCEPT !.list = LocalScan(chats, u),
                                  !.fault = IF oc.q = "error" THEN "qerror" ELSE "qthrow"]
      ELSE IF oc.q = "null" THEN GetUnchanged
      ELSE IF failed /\ oc.how = "throw"
        THEN LET c2 == HydrateUpTo(chats, data, oc.k - 1, oc.k, oc.how)
             IN  [GetUnchanged EXCEPT !.chats = c2, !.list = LocalScan(c2, u),
                                      !.fault = "pthrow"]
      ELSE LET c2 == HydrateUpTo(chats, data, Len(data), oc.k, oc.how)
               sv == saveChatsToStorage(oc.sv, c2, messages, stChats, stMessages)
           IN  [GetUnchanged EXCEPT
                  !.chats = c2, !.list = [i \in 1..Len(data) |-> Listed(c2, data[i])],
                  !.stChats = sv.stChats, !.stMessages = sv.stMessages,
                  !.fault = IF failed THEN "perror" ELSE "none"]

\* The operation that completed last was a membership change that returned.
MemberChange ==
  /\ last.op \in {"addGroupMember", "removeGroupMember"}
  /\ last.outcome = "returned"

GetUserChats(oc) ==
  \E u \in {Caller} : \E R \in {getUserChats(u, oc)} :
    /\ chats' = R.chats
    /\ stChats' = R.stChats
    /\ stMessages' = R.stMessages
    /\ last' = [NoLast EXCEPT !.op = "getUserChats", !.outcome = R.outcome,
                  !.err = R.err, !.caller = u, !.list = R.list,
                  !.fault = R.fault,
                  !.was = IF MemberChange THEN last.op ELSE "none",
                  !.chat = IF MemberChange THEN last.chat ELSE 0,
                  !.held = IF MemberChange THEN last.held ELSE {}]
    /\ scen' = "idle"
    /\ UNCHANGED <<impl, bus, now, mStatus, retryTimer, calls, authVars, remoteVars, messages, pendVars, passes,
                   nextMsg, nextChat, attempts>>

\* Time passes.
Tick ==
  /\ now < MaxClock
  /\ now' = now + 1
  /\ last' = NoLast
  /\ scen' = "idle"
  /\ UNCHANGED <<impl, bus, mStatus, retryTimer, calls, authVars, remoteVars, cacheVars,
                 pendVars, passes,
                 nextMsg, nextChat, attempts>>

\* Store the result R of a sendMessage call.
ApplySend(R) ==
  /\ chats' = R.chats
  /\ messages' = R.messages
  /\ stChats' = R.stChats
  /\ stMessages' = R.stMessages
  /\ rMsgs' = R.rMsgs
  /\ rStatus' = R.rStatus
  /\ nextMsg' = R.nextMsg

\* sendMessage called by the application.
SendMessage(chatId, content, oc) ==
  \E u \in {Caller} : \E R \in {SendCall(u, chatId, content, oc)} :
      /\ u = NoUser \/ nextMsg <= MaxMsgs
      /\ ApplySend(R)
      /\ pendingMessages' = R.P.pend
      /\ pmObj' = Collect(R.P.obj, passes, R.P.pend)
      /\ stPending' = R.P.st
      /\ attempts' = CollectAttempts(attempts, passes, R.P.pend)
      /\ last' = [NoLast EXCEPT !.op = "sendMessage", !.outcome = R.outcome,
                    !.err = R.err, !.caller = u, !.chat = chatId, !.msg = R.id,
                    !.cached = chatId \in DOMAIN chats,
                    !.member = /\ chatId \in DOMAIN chats
                               /\ u \in chats[chatId].participants,
                    !.clear = pendingMessages = <<>> /\ NoPassRunning /\ keys,
                    !.ins = R.ins, !.enc = R.enc,
                    !.appended = R.messages # messages,
                    !.wrote = R.rMsgs # rMsgs \/ R.rStatus # rStatus]
      /\ scen' = "idle"
      /\ UNCHANGED <<impl, bus, now, mStatus, retryTimer, calls, authVars, rProfiles, rChats, rParts, rLeft, passes, nextChat>>

(***************************************************************************)
(* The retry timer.                                                        *)
(***************************************************************************)
\* The send that completed last failed on the Remote Store, with nothing
\* queued before it and no pass in progress.
OutageSend ==
  /\ last.op = "sendMessage"
  /\ last.outcome = "threw"
  /\ last.cached /\ last.member /\ last.clear
  /\ last.err = "query" \/ last.ins \in {"error", "throw"}

\* A timer tick: a pass starts and takes Array.from(pendingMessages.values()).
RetryTick ==
  /\ retryTimer
  /\ \E p \in Slots :
       /\ ~passes[p].on
       /\ \A q \in Slots : q < p => passes[q].on
       /\ passes' = [passes EXCEPT ![p] = [on |-> TRUE, todo |-> pendingMessages, cur |-> 0]]
  /\ scen' = IF OutageSend THEN "retrying"
             ELSE IF scen = "cleared" THEN "cleared" ELSE "idle"
  /\ last' = NoLast
  /\ UNCHANGED <<impl, bus, now, mStatus, retryTimer, calls, authVars, remoteVars, cacheVars, pendVars, nextMsg,
                 nextChat, attempts>>

\* The pass takes its next entry: below the bound it calls sendMessage,
\* otherwise it deletes the entry from the map.
RetryBegin(p) ==
  /\ passes[p].on /\ passes[p].cur = 0 /\ passes[p].todo # <<>>
  /\ LET id == Head(passes[p].todo)
         retry == ShouldRetry(pmObj[id])
         ps == [passes EXCEPT ![p].todo = Tail(@), ![p].cur = IF retry THEN id ELSE 0]
         pend == IF retry THEN pendingMessages ELSE MapDelete(pendingMessages, id)
     IN  /\ passes' = ps
         /\ pendingMessages' = pend
         /\ pmObj' = Collect(pmObj, ps, pend)
         /\ attempts' = CollectAttempts(IF retry THEN [attempts EXCEPT ![id] = @ + 1]
                                        ELSE attempts, ps, pend)
  /\ last' = NoLast
  /\ UNCHANGED <<impl, bus, now, mStatus, retryTimer, calls, authVars, remoteVars, cacheVars, stPending, nextMsg,
                 nextChat, scen>>

\* The sendMessage call of the pass settles.
RetryEnd(p, oc) ==
  /\ passes[p].on /\ passes[p].cur # 0
  /\ Caller = NoUser \/ nextMsg <= MaxMsgs
  /\ \E id \in {passes[p].cur} :
     \E R \in {SendCall(Caller, pmObj[id].chat_id, pmObj[id].content, oc)} :
     \E P \in {RetryResult(R.P, id, R.outcome)} :
     LET ps == [passes EXCEPT ![p].cur = 0]
     IN  /\ ApplySend(R)
         /\ passes' = ps
         /\ pendingMessages' = P.pend
         /\ pmObj' = Collect(P.obj, ps, P.pend)
         /\ stPending' = P.st
         /\ attempts' = CollectAttempts(attempts, ps, P.pend)
  /\ scen' = IF scen = "retrying" /\ oc = SendDefault /\ Caller # NoUser
             THEN "retrying"
             ELSE IF scen = "cleared" THEN "cleared" ELSE "idle"
  /\ last' = [NoLast EXCEPT !.op = "retry", !.msg = passes[p].cur,
                !.caller = Caller, !.held = Range(pendingMessages),
                !.outcome = IF messages' # messages THEN "appended" ELSE "none",
                !.created = IF nextMsg' # nextMsg THEN nextMsg ELSE 0,
                !.wrote = rMsgs' # rMsgs]
  /\ UNCHANGED <<impl, bus, now, mStatus, retryTimer, calls, authVars, rProfiles, rChats, rParts, rLeft, nextChat>>

\* The pass has gone through its array: savePendingMessages.
RetryFinish(p, o) ==
  /\ passes[p].on /\ passes[p].cur = 0 /\ passes[p].todo = <<>>
  /\ passes' = [passes EXCEPT ![p] = IdlePass]
  /\ stPending' = savePendingMessages(o, PendingNow).st
  /\ pmObj' = Collect(pmObj, passes', pendingMessages)
  /\ attempts' = CollectAttempts(attempts, passes', pendingMessages)
  /\ scen' = IF scen = "retrying" /\ o = "ok" THEN "done"
             ELSE IF scen = "cleared" THEN "cleared" ELSE "idle"
  /\ last' = NoLast
  /\ UNCHANGED <<impl, bus, now, mStatus, retryTimer, calls, authVars, remoteVars, cacheVars, pendingMessages,
                 nextMsg, nextChat>>

(***************************************************************************)
(* sendMessage calls that run at the same time.  A call runs until it      *)
(* awaits; the steps below are the stretches between the awaits that       *)
(* matter for the LocalCache.  AsyncStorage applies the setItem calls in   *)
(* the order they are issued.                                              *)
(***************************************************************************)
OtherCalls(c) == {d \in Calls \ {c} : calls[d].pc # "idle"}

\* The call passes its checks (identity, cached chat, participant) and
\* awaits the profiles query and encryptMessage.  The failing cases are
\* those of the action SendMessage.
SendStart(c, chatId, content) ==
  /\ calls[c].pc = "idle"
  /\ nextMsg <= MaxMsgs
  /\ Caller # NoUser
  /\ ChatCached(chats, chatId)
  /\ IsParticipant(chats, chatId, Caller)
  /\ encryptMessage(keys, content, chatId, "ok").threw = FALSE
  /\ calls' = [d \in Calls |->
                 IF d = c
                 THEN [pc |-> "started", id |-> nextMsg, u |-> Caller,
                       chat |-> chatId, content |-> content,
                       over |-> OtherCalls(c) # {}]
                 ELSE IF calls[d].pc # "idle" THEN [calls[d] EXCEPT !.over = TRUE]
                 ELSE calls[d]]
  /\ nextMsg' = nextMsg + 1
  /\ last' = NoLast
  /\ scen' = "idle"
  /\ UNCHANGED <<impl, bus, now, mStatus, retryTimer, authVars, remoteVars, cacheVars,
                 pendVars, passes, nextChat, attempts>>

\* "chatMessages.push(message)" on the array the map holds.
PushMessage(list, m) == Append(list, m)

\* Lines 518-542 up to the first await inside saveChatsToStorage: the
\* message is built and pushed, the chat updated, and setItem('local_chats')
\* issued with the chats as they are now.
SendAppend(c) ==
  /\ calls[c].pc = "started"
  /\ LET k == calls[c]
         m2 == Put(messages, k.chat,
                   PushMessage(MessagesOf(messages, k.chat),
                               NewMessage(k.id, k.chat, k.u, k.content)))
         c2 == [chats EXCEPT ![k.chat].last_message = k.content,
                             ![k.chat].updated_at = now]
     IN  /\ messages' = m2
         /\ chats' = c2
         /\ stChats' = c2
  /\ calls' = [calls EXCEPT ![c].pc = "chats"]
  /\ last' = NoLast
  /\ scen' = "idle"
  /\ UNCHANGED <<impl, bus, now, mStatus, retryTimer, authVars, remoteVars, stMessages,
                 pendVars, passes, nextMsg, nextChat, attempts>>

\* The list of chat chatId up to and with message id: what the list held
\* when that message had just been pushed.
UpTo(list, id) ==
  LET at == {i \in 1..Len(list) : list[i].id = id}
  IN  IF at = {} THEN list ELSE SubSeq(list, 1, CHOOSE i \in at : TRUE)

\* messagesMap holds the arrays themselves, so JSON.stringify(messagesMap),
\* evaluated when setItem('local_messages') is issued, sees every push made
\* until then.
MessagesBlob_m(c) == [x \in DOMAIN messages |-> UpTo(messages[x], calls[c].id)]

MessagesBlob(c) == messages

\* saveChatsToStorage resumes after its first await and issues
\* setItem('local_messages').
SendSaveMessages(c) ==
  /\ calls[c].pc = "chats"
  /\ stMessages' = MessagesBlob(c)
  /\ calls' = [calls EXCEPT ![c].pc = "saved"]
  /\ last' = NoLast
  /\ scen' = "idle"
  /\ UNCHANGED <<impl, bus, now, mStatus, retryTimer, authVars, remoteVars, chats,
                 messages, stChats, pendVars, passes, nextMsg, nextChat, attempts>>

\* The rest of the call: the remote write and the tail of src/lib/chat.ts,
\* the return of src/unnamed/part_001.
SendRest(c, oc) ==
  LET k == calls[c]
      R0 == [SendUnchanged EXCEPT !.id = k.id, !.enc = TRUE]
  IN  IF impl = "lib"
      THEN SendTail(RemoteInsert(R0, k.id, k.chat, k.u, k.content, oc),
                    k.id, k.chat, k.content, oc)
      ELSE [R0 EXCEPT !.outcome = "returned", !.err = "none"]

SendFinish(c, oc) ==
  /\ calls[c].pc = "saved"
  /\ \E R \in {SendRest(c, oc)} :
       /\ rMsgs' = R.rMsgs
       /\ rStatus' = R.rStatus
       /\ pendingMessages' = R.P.pend
       /\ pmObj' = Collect(R.P.obj, passes, R.P.pend)
       /\ stPending' = R.P.st
       /\ attempts' = CollectAttempts(attempts, passes, R.P.pend)
       /\ last' = [NoLast EXCEPT !.op = "sendMessage", !.outcome = R.outcome,
                     !.err = R.err, !.caller = calls[c].u, !.chat = calls[c].chat,
                     !.msg = calls[c].id, !.cached = TRUE, !.member = TRUE,
                     !.ins = R.ins, !.enc = TRUE, !.appended = TRUE,
                     !.wrote = R.rMsgs # rMsgs \/ R.rStatus # rStatus,
                     !.overlap = calls[c].over]
  /\ calls' = [calls EXCEPT ![c] = IdleCall]
  /\ scen' = "idle"
  /\ UNCHANGED <<impl, bus, now, mStatus, retryTimer, authVars, rProfiles, rChats, rParts, rLeft, cacheVars,
                 passes, nextMsg, nextChat>>

(***************************************************************************)
(* The life of a ChatManager.                                              *)
(***************************************************************************)
\* The PendingMessage objects the map holds.
PendingHeld == {pmObj[id] : id \in Range(pendingMessages)}

\* destroy: the timer is cleared and the pending map emptied; nothing is
\* written.  A pass that is in progress is not stopped.
destroy ==
  /\ retryTimer' = FALSE
  /\ pendingMessages' = <<>>
  /\ pmObj' = Collect(pmObj, passes, <<>>)
  /\ attempts' = CollectAttempts(attempts, passes, <<>>)
  /\ last' = [NoLast EXCEPT !.op = "destroy", !.outcome = "returned",
                !.held = PendingHeld]
  /\ scen' = "cleared"
  /\ UNCHANGED <<impl, bus, now, mStatus, calls, authVars, remoteVars, cacheVars, stPending,
                 passes, nextMsg, nextChat>>

\* clearPendingMessages: the map is emptied, then the pending blob removed.
clearPendingMessages(o) ==
  /\ pendingMessages' = <<>>
  /\ pmObj' = Collect(pmObj, passes, <<>>)
  /\ attempts' = CollectAttempts(attempts, passes, <<>>)
  /\ stPending' = IF o = "ok" THEN <<>> ELSE stPending
  /\ last' = [NoLast EXCEPT !.op = "clearPendingMessages",
                !.outcome = IF o = "ok" THEN "returned" ELSE "threw"]
  /\ scen' = "cleared"
  /\ UNCHANGED <<impl, bus, now, mStatus, retryTimer, calls, authVars, remoteVars,
                 cacheVars, passes, nextMsg, nextChat>>

\* clearAllChats: the three maps are emptied, then the three blobs removed.
clearAllChats(o) ==
  /\ chats' = EmptyMap
  /\ messages' = EmptyMap
  /\ pendingMessages' = <<>>
  /\ pmObj' = Collect(pmObj, passes, <<>>)
  /\ attempts' = CollectAttempts(attempts, passes, <<>>)
  /\ stChats' = IF o = "ok" THEN EmptyMap ELSE stChats
  /\ stMessages' = IF o = "ok" THEN EmptyMap ELSE stMessages
  /\ stPending' = IF o = "ok" THEN <<>> ELSE stPending
  /\ last' = [NoLast EXCEPT !.op = "clearAllChats",
                !.outcome = IF o = "ok" THEN "returned" ELSE "threw"]
  /\ scen' = "cleared"
  /\ UNCHANGED <<impl, bus, now, mStatus, retryTimer, calls, authVars, remoteVars,
                 passes, nextMsg, nextChat>>

\* What loadChatsFromStorage puts into the maps.
loadChatsFromStorage == [chats |-> stChats, messages |-> stMessages]

\* The application is started again: a new AuthManager without identity (the
\* session is kept by the supabase client) and a new ChatManager, whose
\* constructor loads the chats and messages blobs and starts the timer.  The
\* pending blob is not read.  Callbacks of the old process are gone.
constructor ==
  /\ currentUser' = NoUser
  /\ keys' = FALSE
  /\ chats' = loadChatsFromStorage.chats
  /\ messages' = loadChatsFromStorage.messages
  /\ pendingMessages' = <<>>
  /\ pmObj' = EmptyMap
  /\ attempts' = EmptyMap
  /\ passes' = [p \in Slots |-> IdlePass]
  /\ retryTimer' = TRUE
  /\ mStatus' = {}
  /\ calls' = [c \in Calls |-> IdleCall]
  /\ last' = [NoLast EXCEPT !.op = "constructor", !.outcome = "returned"]
  /\ scen' = "idle"
  /\ UNCHANGED <<impl, bus, now, session, stAuth, remoteVars, stChats, stMessages, stPending,
                 nextMsg, nextChat>>

(***************************************************************************)
(* Specifications.                                                         *)
(***************************************************************************)
\* The participantIds lists createChat is called with: none, one user by
\* profile id, by short id, an unknown one, the caller itself, two users,
\* the same user twice under two names, a list holding the caller, an
\* unknown short id, the empty text and a decimal fraction.
RefSeqs ==
  {<<>>, <<"b">>, <<"2">>, <<"x">>, <<"a">>, <<"b", "c">>, <<"b", "2">>,
   <<"c", "a">>, <<"9">>, <<"">>, <<"2.5">>}

\* Chat creation by user a, from a fresh installation.
Next ==
  \/ signInAndEnsureProfile("a", TRUE, "ok")
  \/ logout("ok")
  \/ \E refs \in RefSeqs, isGroup \in BOOLEAN, name \in Names :
       \E oc \in CreateOutcomes(Caller, refs, isGroup) :
         CreateChat(refs, isGroup, name, oc)

Spec == Init /\ [][Next]_vars

\* Sending, on a device that holds one group chat.
NextSend ==
  \/ \E u \in LoginUsers, k \in BOOLEAN : signInAndEnsureProfile(u, k, "ok")
  \/ logout("ok")
  \/ \E userId \in LoginUsers : removeGroupMember(1, userId, "ok")
  \/ \E chatId \in ChatIds, content \in Contents :
       \E oc \in SendOutcomes({"ok"}, PendSaveOutcomes) :
         SendMessage(chatId, content, oc)

SpecSend == InitSend /\ [][NextSend]_vars

\* One user, one cached chat, and the retry timer.
RetryOutcomes ==
  {oc \in SendOutcomes({"ok"}, {"ok"}) :
     oc.st = "ok" /\ oc.ins # "throw" /\ oc.enc = "ok"}

NextRetry ==
  \/ signInAndEnsureProfile("a", TRUE, "ok")
  \/ logout("ok")
  \/ \E oc \in RetryOutcomes : SendMessage(1, "hi", oc)
  \/ RetryTick
  \/ \E p \in Slots : RetryBegin(p)
  \/ \E p \in Slots : \E oc \in RetryOutcomes : RetryEnd(p, oc)
  \/ \E p \in Slots : RetryFinish(p, "ok")

SpecRetry == InitRetry /\ [][NextRetry]_vars

\* The retry machinery with destroy and restarts of the application.
NextLife ==
  \/ NextRetry
  \/ destroy
  \/ constructor

SpecLife == InitRetry /\ [][NextLife]_vars

\* Two sendMessage calls on the same chat whose awaits interleave.
NextRace ==
  \/ Tick
  \/ \E c \in Calls, content \in Contents : SendStart(c, 1, content)
  \/ \E c \in Calls : SendAppend(c)
  \/ \E c \in Calls : SendSaveMessages(c)
  \/ \E c \in Calls : SendFinish(c, SendDefault)

SpecRace == InitRetry /\ [][NextRace]_vars

\* Signing in and out, with failures of the steps of logout, on a device
\* that holds one group chat.
LogoutOutcomes == {"ok", "signOutThrows", "removeThrows"}

NextAuth ==
  \/ \E u \in LoginUsers, k \in BOOLEAN : signInAndEnsureProfile(u, k, "ok")
  \/ \E o \in LogoutOutcomes : logout(o)
  \/ \E oc \in RetryOutcomes : SendMessage(1, "hi", oc)

SpecAuth == InitSend /\ [][NextAuth]_vars

\* Every operation of ChatManager, called with and without an identity.
NextAnon ==
  \/ \E u \in LoginUsers : signInAndEnsureProfile(u, TRUE, "ok")
  \/ \E o \in LogoutOutcomes : logout(o)
  \/ \E refs \in {<<"b">>, <<"b", "c">>}, isGroup \in BOOLEAN :
       CreateChat(refs, isGroup, "team", CreateDefault)
  \/ SendMessage(1, "hi", SendDefault)
  \/ GetUserChats(GetDefault)
  \/ \E userId \in Users : addGroupMember(1, userId, "ok", "ok")
  \/ \E userId \in Users : removeGroupMember(1, userId, "ok")

SpecAnon == InitSend /\ [][NextAnon]_vars

\* Listing chats and changing group membership while time passes.
NextList ==
  \/ \E u \in LoginUsers : signInAndEnsureProfile(u, TRUE, "ok")
  \/ logout("ok")
  \/ Tick
  \/ \E oc \in GetOutcomes : GetUserChats(oc)
  \/ \E chatId \in ChatIds, userId \in Users, pq \in {"ok", "error"} :
       addGroupMember(chatId, userId, pq, "ok")
  \/ \E chatId \in ChatIds, userId \in Users : removeGroupMember(chatId, userId, "ok")

SpecList == InitList /\ [][NextList]_vars

\* A client of the Remote Store sets left_at on the caller's own row of
\* chat_participants (policy "Users can update own participation"); no
\* operation of ChatManager does.
leaveChat(chatId, userId) ==
  /\ userId \in UsersOf(rParts, chatId)
  /\ <<chatId, userId>> \notin rLeft
  /\ Cardinality(rLeft) < MaxLeft
  /\ rLeft' = rLeft \cup {<<chatId, userId>>}
  /\ last' = [NoLast EXCEPT !.op = "leaveChat", !.chat = chatId, !.member = userId]
  /\ scen' = "idle"
  /\ UNCHANGED <<impl, bus, now, mStatus, retryTimer, calls, authVars, rProfiles, rChats, rParts,
                 rMsgs, rStatus, cacheVars, pendVars, passes, nextMsg, nextChat,
                 attempts>>

\* The user sends at most MaxUserSends messages, then only the retry timer
\* acts; the timer fires every 30 s for as long as it is set, and a pass that
\* has started runs to its end.
NextDrain ==
  \/ \E oc \in RetryOutcomes : nextMsg <= MaxUserSends /\ SendMessage(1, "hi", oc)
  \/ signInAndEnsureProfile("a", TRUE, "ok")
  \/ logout("ok")
  \/ RetryTick
  \/ \E p \in Slots : RetryBegin(p)
  \/ \E p \in Slots : \E oc \in RetryOutcomes : RetryEnd(p, oc)
  \/ \E p \in Slots : RetryFinish(p, "ok")

SpecDrain ==
  /\ InitRetry /\ [][NextDrain]_vars
  /\ WF_vars(RetryTick)
  /\ WF_vars(\E p \in Slots : RetryBegin(p))
  /\ WF_vars(\E p \in Slots : \E oc \in RetryOutcomes : RetryEnd(p, oc))
  /\ WF_vars(\E p \in Slots : RetryFinish(p, "ok"))

\* Array.prototype.sort with "(a, b) => time(b.created_at) - time(a.created_at)":
\* newest first, stable, and in place, so the sorted array is the array.
RECURSIVE SortByCreatedDesc(_)
SortByCreatedDesc(list) ==
  IF list = <<>> THEN <<>>
  ELSE LET m == list[Len(list)]
           rest == SortByCreatedDesc(SubSeq(list, 1, Len(list) - 1))
           before == {i \in 1..Len(rest) : rest[i].created_at >= m.created_at}
           k == Cardinality(before)
       IN  SubSeq(rest, 1, k) \o <<m>> \o SubSeq(rest, k + 1, Len(rest))

\* ".slice(0, limit)"
Slice(list, limit) == SubSeq(list, 1, IF limit < Len(list) THEN limit ELSE Len(list))

\* getChatMessages(chatId, limit): "this.messages.get(chatId) || []", sorted
\* and sliced.  It makes no call that can fail.
getChatMessages(chatId, limit) ==
  /\ messages' = IF chatId \in DOMAIN messages
                 THEN [messages EXCEPT ![chatId] = SortByCreatedDesc(@)] ELSE messages
  /\ last' = [NoLast EXCEPT !.op = "getChatMessages", !.outcome = "returned",
                !.chat = chatId, !.ret = limit,
                !.list = Slice(SortByCreatedDesc(MessagesOf(messages, chatId)), limit)]
  /\ scen' = "idle"
  /\ UNCHANGED <<impl, bus, now, mStatus, retryTimer, calls, authVars, remoteVars,
                 chats, stChats, stMessages, pendVars, passes, nextMsg, nextChat,
                 attempts>>

\* One identity sends, then the retry timer acts while the identity on the
\* device changes.
NextSwitch ==
  \/ \E u \in LoginUsers : signInAndEnsureProfile(u, TRUE, "ok")
  \/ logout("ok")
  \/ \E oc \in RetryOutcomes : nextMsg <= MaxUserSends /\ SendMessage(1, "hi", oc)
  \/ RetryTick
  \/ \E p \in Slots : RetryBegin(p)
  \/ \E p \in Slots : \E oc \in RetryOutcomes : RetryEnd(p, oc)
  \/ \E p \in Slots : RetryFinish(p, "ok")

SpecSwitch == InitRetry /\ [][NextSwitch]_vars

\* Sending and reading the messages of a chat as time passes.
NextRead ==
  \/ Tick
  \/ \E oc \in RetryOutcomes : SendMessage(1, "hi", oc)
  \/ \E chatId \in ChatIds, limit \in 0..MaxMsgs : getChatMessages(chatId, limit)

SpecRead == InitRetry /\ [][NextRead]_vars

\* retryPendingMessages awaits nothing but its sendMessage calls and the
\* final save: between two of them it runs without interruption.  Every pass
\* but p is waiting for its sendMessage call.
Awaiting(p) == \A q \in Slots \ {p} : passes[q].on => passes[q].cur # 0

\* Sending and retrying while the application clears the queue or destroys
\* the manager; other code runs only while the passes await.
NextStop ==
  \/ \E oc \in RetryOutcomes : Awaiting(0) /\ SendMessage(1, "hi", oc)
  \/ Awaiting(0) /\ RetryTick
  \/ \E p \in Slots : RetryBegin(p)
  \/ \E p \in Slots : \E oc \in RetryOutcomes : Awaiting(p) /\ RetryEnd(p, oc)
  \/ \E p \in Slots : RetryFinish(p, "ok")
  \/ Awaiting(0) /\ destroy
  \/ \E o \in PendSaveOutcomes : Awaiting(0) /\ clearPendingMessages(o)
  \/ \E o \in PendSaveOutcomes : Awaiting(0) /\ clearAllChats(o)

SpecStop == InitRetry /\ [][NextStop]_vars

\* Outcomes a signInAndEnsureProfile call can meet: signInAnonymously (auth),
\* the profiles query of fetchProfile (fetch), generateKeyPair (gen), the
\* profiles insert (ins) and the multiSet of the private key and profile (set).
RegDefault == [auth |-> "ok", fetch |-> "ok", gen |-> "ok", ins |-> "ok", set |-> "ok"]
RegOutcomes ==
  {[RegDefault EXCEPT !.auth = "error"], [RegDefault EXCEPT !.fetch = "error"],
   [RegDefault EXCEPT !.ins = "error"], [RegDefault EXCEPT !.set = "throw"]}
    \cup {[RegDefault EXCEPT !.gen = g] : g \in {"ok", "nopublic", "noprivate", "null"}}

RegUnchanged ==
  [outcome |-> "threw", err |-> "none", currentUser |-> currentUser,
   keys |-> keys, stAuth |-> stAuth, rProfiles |-> rProfiles]

\* createProfileForAuthUser, were it to persist and bind the key pair before
\* the profiles insert.
createProfileForAuthUser_m(u, oc) ==
  IF oc.gen # "ok" THEN [RegUnchanged EXCEPT !.err = "keygen"]
  ELSE IF oc.ins # "ok" \/ u \in rProfiles
    THEN [RegUnchanged EXCEPT !.err = "insert", !.stAuth = AuthStoreOf(u),
                              !.keys = TRUE]
  ELSE [RegUnchanged EXCEPT !.outcome = "returned", !.rProfiles = @ \cup {u},
                            !.stAuth = AuthStoreOf(u), !.keys = TRUE]

\* createProfileForAuthUser(authUid): the key pair, the insert of the
\* profiles row (id is the primary key), the multiSet, setKeyPair.
createProfileForAuthUser(u, oc) ==
  IF oc.gen # "ok" THEN [RegUnchanged EXCEPT !.err = "keygen"]
  ELSE IF oc.ins # "ok" \/ u \in rProfiles
    THEN [RegUnchanged EXCEPT !.err = "insert"]
  ELSE IF oc.set # "ok"
    THEN [RegUnchanged EXCEPT !.err = "multiSet", !.rProfiles = @ \cup {u}]
  ELSE [RegUnchanged EXCEPT !.outcome = "returned", !.rProfiles = @ \cup {u},
                            !.stAuth = AuthStoreOf(u), !.keys = TRUE]

\* signInAndEnsureProfile and its alias register, in full: the session, the
\* profile that exists (the stored private key is bound if there is one), or
\* a new profile.  fetchProfile returns null for no row and for an error.
register(u, oc) ==
  /\ currentUser = NoUser
  /\ session \in {NoUser, u}
  /\ \E R \in {IF session = NoUser /\ oc.auth # "ok"
                THEN [RegUnchanged EXCEPT !.err = "session"]
              ELSE IF oc.fetch = "ok" /\ u \in rProfiles
                THEN [RegUnchanged EXCEPT !.outcome = "returned", !.currentUser = u,
                                          !.keys = keys \/ stAuth.private_key # NoUser]
              ELSE LET C == createProfileForAuthUser(u, oc)
                   IN  IF C.outcome = "returned" THEN [C EXCEPT !.currentUser = u]
                       ELSE C} :
       /\ session' = IF R.err = "session" THEN session ELSE u
       /\ currentUser' = R.currentUser
       /\ keys' = R.keys
       /\ stAuth' = R.stAuth
       /\ rProfiles' = R.rProfiles
       /\ last' = [NoLast EXCEPT !.op = "register", !.outcome = R.outcome,
                     !.err = R.err, !.caller = u, !.fault = oc.gen,
                     !.created = IF u \in rProfiles THEN 0 ELSE 1]
  /\ scen' = "idle"
  /\ UNCHANGED <<impl, bus, now, mStatus, retryTimer, calls, rChats, rParts, rLeft,
                 rMsgs, rStatus, cacheVars, pendVars, passes, nextMsg, nextChat,
                 attempts>>

\* A device on which nobody has signed in; b has registered elsewhere.
InitReg ==
  /\ InitCommon
  /\ currentUser = NoUser
  /\ session = NoUser
  /\ keys = FALSE
  /\ stAuth = NoAuthStore
  /\ rProfiles = {"b"}
  /\ rChats = EmptyMap
  /\ rParts = {}
  /\ chats = EmptyMap
  /\ messages = EmptyMap
  /\ stChats = EmptyMap
  /\ stMessages = EmptyMap
  /\ nextChat = 1

\* Registration, logout and restart.
NextReg ==
  \/ \E u \in Users, oc \in RegOutcomes : register(u, oc)
  \/ \E o \in LogoutOutcomes : logout(o)
  \/ constructor

SpecReg == InitReg /\ [][NextReg]_vars

\* subscribeToChat: the body is "return () => {}".  It registers no channel
\* and keeps no callback, so ChatManager has no subscription on the bus.
Registered == {}

\* What a message-created event for row does to the cached lists: it is
\* handed to the callbacks of the registered subscriptions, of which there
\* are none, and ChatManager has no other handler for it.
Dispatch_m(m, row) ==
  [m EXCEPT ![row.chat_id] =
     Append(@, [id |-> row.id, chat_id |-> row.chat_id,
                sender_id |-> row.sender_id, content |-> row.content,
                created_at |-> now])]

Dispatch(m, row) ==
  IF row.chat_id \in Registered THEN Dispatch_m(m, row) ELSE m

subscribeToChat(chatId) ==
  /\ chatId \notin bus.handles
  /\ bus' = [bus EXCEPT !.handles = @ \cup {chatId}]
  /\ last' = [NoLast EXCEPT !.op = "subscribeToChat", !.chat = chatId]
  /\ scen' = "idle"
  /\ UNCHANGED <<impl, now, mStatus, retryTimer, calls, authVars, remoteVars,
                 cacheVars, pendVars, passes, nextMsg, nextChat, attempts>>

\* The application invokes the handle subscribeToChat returned.
Unsubscribe(chatId) ==
  /\ chatId \in bus.handles
  /\ bus' = [bus EXCEPT !.handles = @ \ {chatId}]
  /\ last' = [NoLast EXCEPT !.op = "unsubscribe", !.chat = chatId]
  /\ scen' = "idle"
  /\ UNCHANGED <<impl, now, mStatus, retryTimer, calls, authVars, remoteVars,
                 cacheVars, pendVars, passes, nextMsg, nextChat, attempts>>

\* The Realtime Bus emits the message-created event of a messages row, for
\* the first or the second time.
Deliver(row) ==
  /\ row \in rMsgs
  /\ row.chat_id \in DOMAIN messages
  /\ row.id \notin bus.twice
  /\ bus' = IF row.id \in bus.once THEN [bus EXCEPT !.twice = @ \cup {row.id}]
                                   ELSE [bus EXCEPT !.once = @ \cup {row.id}]
  /\ messages' = Dispatch(messages, row)
  /\ last' = [NoLast EXCEPT !.op = "deliver", !.chat = row.chat_id, !.msg = row.id]
  /\ scen' = "idle"
  /\ UNCHANGED <<impl, now, mStatus, retryTimer, calls, authVars, remoteVars,
                 chats, stChats, stMessages, pendVars, passes, nextMsg, nextChat,
                 attempts>>

\* Sending while the application subscribes and the bus delivers events.
NextBus ==
  \/ signInAndEnsureProfile("a", TRUE, "ok")
  \/ logout("ok")
  \/ \E oc \in RetryOutcomes : SendMessage(1, "hi", oc)
  \/ subscribeToChat(1)
  \/ Unsubscribe(1)
  \/ \E row \in rMsgs : Deliver(row)

SpecBus == InitSend /\ [][NextBus]_vars

\* Listing and direct-chat creation while participants leave their chats.
NextLeave ==
  \/ \E u \in Users : signInAndEnsureProfile(u, TRUE, "ok")
  \/ logout("ok")
  \/ \E chatId \in ChatIds, userId \in Users : leaveChat(chatId, userId)
  \/ \E oc \in GetOutcomes : GetUserChats(oc)
  \/ \E r \in {"b", "c"} : CreateChat(<<r>>, FALSE, NoName, CreateDefault)

SpecLeave == InitList /\ [][NextLeave]_vars

\* Delivery and read receipts for the messages of one group chat.
NextStatus ==
  \/ \E u \in LoginUsers : signInAndEnsureProfile(u, TRUE, "ok")
  \/ logout("ok")
  \/ \E oc \in RetryOutcomes : SendMessage(1, "hi", oc)
  \/ \E messageId \in 1..MaxMsgs, status \in {"delivered", "seen"},
        o \in {"ok", "error", "throw"} :
       updateMessageStatus(messageId, status, o)

SpecStatus == InitSend /\ [][NextStatus]_vars

(***************************************************************************)
(* Properties.                                                             *)
(***************************************************************************)
SentByParticipant ==
  /\ last.op = "sendMessage"
  /\ last.caller # NoUser
  /\ last.cached
  /\ last.member

PendingCount(id) ==
  Cardinality({i \in 1..Len(pendingMessages) : pendingMessages[i] = id})

\* C1: when a sendMessage call on a cached chat by an active participant
\* finishes, either it returned the Message and no PendingMessage exists for
\* the message id, or it threw and exactly one PendingMessage exists for the
\* id, with retry_count 0; a failed remote insert ends in the throwing
\* outcome.
C1_SendOutcome ==
  SentByParticipant =>
    /\ \/ /\ last.outcome = "returned"
          /\ PendingCount(last.msg) = 0
       \/ /\ last.outcome = "threw"
          /\ PendingCount(last.msg) = 1
          /\ pmObj[last.msg].retry_count = 0
    /\ last.ins \in {"error", "throw"} => last.outcome = "threw"

\* C1 happens: a participant's send whose remote insert failed has thrown.
C1_Witness ==
  /\ SentByParticipant
  /\ last.ins \in {"error", "throw"}
  /\ last.outcome = "threw"
  /\ PendingCount(last.msg) = 1

\* C2: retryPendingMessages never makes more than 5 send attempts for one
\* PendingMessage before removing it, counted over all retry ticks.
C2_AtMostFiveAttempts ==
  \A id \in DOMAIN attempts : attempts[id] <= MaxRetries

\* C2 fails: some PendingMessage has been sent more than 5 times.
C2_SixthAttempt ==
  \E id \in DOMAIN attempts : attempts[id] > MaxRetries

\* C3: a send failed on the Remote Store and left a PendingMessage; once
\* every Remote Store call succeeds again and one retry pass has completed,
\* with no user send in between, no PendingMessage is left.
C3_DrainedAfterRecovery ==
  scen = "done" => pendingMessages = <<>>

\* C3 fails: the recovery pass has completed and entries are still queued.
C3_StillQueued ==
  scen = "done" /\ pendingMessages # <<>>

\* C4: a message whose remote insert succeeded is confirmed for good: it is
\* never a PendingMessage.
C4_ConfirmedNeverPending ==
  \A r \in rMsgs : r.id \notin Range(pendingMessages)

\* C4 fails: a message is in the Remote Store and in the pending queue.
C4_ConfirmedAndPending ==
  \E r \in rMsgs : r.id \in Range(pendingMessages)

DirectAgain ==
  /\ last.op = "createChat"
  /\ ~last.group
  /\ Len(last.others) = 1
  /\ last.prior # 0
  /\ last.nofault

\* C5: createChat([B], isGroup = false) by a caller who already has a direct
\* chat with B returns that chat's id and inserts no Chat row (every Remote
\* Store call of the second createChat succeeding).
C5_DirectIdempotent ==
  DirectAgain =>
    /\ last.outcome = "returned"
    /\ last.ret = last.prior
    /\ last.created = 0

\* C5 fails: the second createChat returned a chat it has just inserted.
C5_SecondChat ==
  /\ DirectAgain
  /\ last.outcome = "returned"
  /\ last.created # 0
  /\ last.ret # last.prior

CreatedChat ==
  /\ last.op = "createChat"
  /\ last.created # 0
  /\ last.err \in {"none", "reference368"}

\* C7: a createChat that creates a chat with n resolved other participants
\* inserts exactly n+1 Participant rows for it, the caller as admin and each
\* other as member, and the Chat's participant set is the caller and those n.
C7_ParticipantRows ==
  CreatedChat =>
    /\ PartsOf(rParts, last.created) =
         {[chat_id |-> last.created, user_id |-> last.caller, role |-> "admin"]}
           \cup {[chat_id |-> last.created, user_id |-> x, role |-> "member"] :
                   x \in Range(last.others)}
    /\ Cardinality(PartsOf(rParts, last.created)) = Len(last.others) + 1
    /\ chats[last.created].participants = {last.caller} \cup Range(last.others)

\* C7 happens: a chat with two other participants has been created.
C7_Witness ==
  /\ CreatedChat
  /\ Len(last.others) = 2
  /\ Cardinality(PartsOf(rParts, last.created)) = 3

\* C8: if a Participant insert of createChat fails, a delete of the Chat row
\* it has just inserted is issued, createChat throws, and LocalCache (maps
\* and durable blobs) is unchanged.
C8_CompensatingDelete ==
  last.op = "createChat" /\ last.err = "participants" =>
    /\ last.del
    /\ last.outcome = "threw"
    /\ last.clean

\* C8 fails: a Participant insert failed and no delete was issued.
C8_NoDelete ==
  /\ last.op = "createChat"
  /\ last.err = "participants"
  /\ ~last.del
  /\ last.created \in DOMAIN rChats

\* C9: sendMessage on a chat id that is not in LocalCache fails with the
\* not-found error; the chat is not fetched into the cache and no message is
\* appended to a cached list.
C9_UncachedNotFound ==
  last.op = "sendMessage" /\ last.caller # NoUser /\ ~last.cached =>
    /\ last.outcome = "threw"
    /\ last.err = "notfound"
    /\ ~last.appended
    /\ ~last.wrote
    /\ last.chat \notin DOMAIN chats

\* C9 happens: a signed-in user has sent on a chat that is not cached.
C9_Witness ==
  /\ last.op = "sendMessage"
  /\ last.caller # NoUser
  /\ ~last.cached
  /\ last.err = "notfound"

\* C10: sendMessage by a caller who is not in the cached chat's participants
\* fails with the participant error before any encryption, local append or
\* remote write.
C10_NonParticipantRejected ==
  last.op = "sendMessage" /\ last.caller # NoUser /\ last.cached /\ ~last.member =>
    /\ last.outcome = "threw"
    /\ last.err = "participant"
    /\ ~last.enc
    /\ ~last.appended
    /\ ~last.wrote

\* C10 happens: a member removed by removeGroupMember, still a participant
\* in the Remote Store and holding keys, has sent on the chat.
C10_Witness ==
  /\ last.op = "sendMessage"
  /\ last.cached
  /\ ~last.member
  /\ keys
  /\ last.caller \in UsersOf(rParts, last.chat)
  /\ last.err = "participant"

\* C11: every messages row sendMessage writes to the Remote Store holds the
\* ciphertext of the content for its chat, never the plaintext, also when
\* encryptMessage returns an empty result.
C11_OnlyCiphertextLeaves ==
  \A r \in rMsgs : \E c \in Contents : r.content = Ciphertext(c, r.chat_id)

\* C11 fails: a row in the Remote Store holds the caller's plaintext.
C11_PlaintextRow ==
  \E r \in rMsgs : \E c \in Contents : r.content = Plaintext(c)

\* updated_at never increases along the list l.
NewestFirst(l) ==
  \A i, j \in 1..Len(l) : i < j => l[i].updated_at >= l[j].updated_at

\* C12: the list getUserChats returns is sorted by updated_at, newest first,
\* whether it comes from the Remote Store or from either fallback.
C12_SortedNewestFirst ==
  last.op = "getUserChats" /\ last.outcome = "returned" => NewestFirst(last.list)

\* C12 happens: a fallback has returned two chats, the one with the larger
\* id first because it is the newer.
C12_Witness ==
  /\ last.op = "getUserChats"
  /\ last.fault \in {"qerror", "qthrow", "pthrow"}
  /\ Len(last.list) = 2
  /\ last.list[1].id > last.list[2].id
  /\ last.list[1].updated_at > last.list[2].updated_at

\* The cached chats that hold u, as the caller sees them.
LocalChatsOf(u) ==
  {Listed(chats, id) : id \in {x \in DOMAIN chats : u \in chats[x].participants}}

\* C13: when the Remote Store fails during getUserChats (the chats query or
\* a participants query, by error or by exception), the call returns, and
\* returns exactly the cached chats whose participant set holds the caller.
C13_FallbackOnRemoteFailure ==
  last.op = "getUserChats" /\ last.fault # "none" =>
    /\ last.outcome = "returned"
    /\ Range(last.list) = LocalChatsOf(last.caller)

\* C13 fails: a participants query returned an error and the call returned
\* the Remote Store's list, with a chat that has no participants.
C13_ParticipantsErrorIgnored ==
  /\ last.op = "getUserChats"
  /\ last.fault = "perror"
  /\ \E i \in 1..Len(last.list) : last.list[i].participants = {}
  /\ Range(last.list) # LocalChatsOf(last.caller)

\* C14: addGroupMember and removeGroupMember return only for the chat's
\* created_by; for any other caller they throw and leave the participant
\* set, updated_at and the LocalCache as they were.
C14_OnlyCreatorChangesMembers ==
  last.op \in {"addGroupMember", "removeGroupMember"} /\ last.chat \in DOMAIN chats =>
    /\ last.outcome = "returned" => chats[last.chat].created_by = last.caller
    /\ chats[last.chat].created_by # last.caller =>
         last.outcome = "threw" /\ last.clean

\* C14 happens: a participant of a group who did not create it has called
\* a membership operation and was refused.
C14_Witness ==
  /\ last.op \in {"addGroupMember", "removeGroupMember"}
  /\ last.err = "notcreator"
  /\ last.caller \in chats[last.chat].participants
  /\ chats[last.chat].created_by # last.caller

\* C15: the status a user has for a message never goes back from seen to
\* sent or delivered, in the Remote Store row and in the cached entry.
C15_SeenIsFinal ==
  [][/\ \A r \in rStatus : r.status = "seen" =>
          StatusOf(rStatus', r.message_id, r.user_id) = "seen"
     /\ \A r \in mStatus : r.status = "seen" =>
          StatusOf(mStatus', r.message_id, r.user_id) = "seen"]_vars

\* C15 fails: updateMessageStatus has replaced seen by delivered, in the
\* Remote Store and in the cache.
C15_SeenOverwritten ==
  /\ last.op = "updateMessageStatus"
  /\ last.was = "seen"
  /\ StatusOf(rStatus, last.msg, last.caller) = "delivered"
  /\ StatusOf(mStatus, last.msg, last.caller) = "delivered"

\* The retryPendingMessages invocations in progress.
PassesRunning == {p \in Slots : passes[p].on}

\* C16: the retry task does not overlap with itself: at most one
\* retryPendingMessages pass is in progress at any time.
C16_OnePassAtATime ==
  Cardinality(PassesRunning) <= 1

\* C16 fails: the timer has fired while a pass was waiting for its
\* sendMessage call, and the second pass has taken the same entry.
C16_TwoPasses ==
  \E p, q \in Slots :
    /\ p # q
    /\ passes[p].on /\ passes[p].cur # 0
    /\ passes[q].on /\ passes[q].cur = passes[p].cur

\* C17: destroy cancels the retry timer, and after destroy the pending blob
\* holds every PendingMessage that was in memory, with its current
\* retry_count.
C17_DestroyPersists ==
  last.op = "destroy" => ~retryTimer /\ last.held \subseteq Range(stPending)

\* C17 fails: destroy has dropped a PendingMessage whose current retry_count
\* is not in the pending blob.
C17_DroppedUnsaved ==
  /\ last.op = "destroy"
  /\ ~retryTimer
  /\ \E m \in last.held : m \notin Range(stPending)

\* C18: the PendingMessage set survives a restart: the queue of the new
\* ChatManager holds what the pending blob holds.
C18_QueueSurvivesRestart ==
  last.op = "constructor" => PendingHeld = Range(stPending)

\* C18 fails: the application has restarted with PendingMessages in the
\* blob and the queue is empty.
C18_QueueLost ==
  /\ last.op = "constructor"
  /\ stPending # <<>>
  /\ pendingMessages = <<>>

\* C20: every logout clears the keys: when logout has returned the device
\* holds no key material and no current identity, whichever step failed.
C20_LogoutClears ==
  last.op = "logout" => ~keys /\ currentUser = NoUser

\* C20 fails: removing the stored session failed inside logout, and the
\* identity and the keys are still in memory after it returned.
C20_StillSignedIn ==
  /\ last.op = "logout"
  /\ last.fault = "removeThrows"
  /\ keys
  /\ currentUser # NoUser
  /\ session = NoUser

\* No sendMessage call of the application is in progress.
Quiet == \A c \in Calls : calls[c].pc = "idle"

\* The largest created_at in list.
Latest(list) ==
  CHOOSE t \in {list[i].created_at : i \in 1..Len(list)} :
    \A i \in 1..Len(list) : list[i].created_at <= t

EngineOps ==
  {"createChat", "sendMessage", "getUserChats", "addGroupMember",
   "removeGroupMember"}

\* C21: called without an identity, createChat, sendMessage, getUserChats,
\* addGroupMember and removeGroupMember fail with the auth error and leave
\* the LocalCache, the pending queue and the Remote Store as they were.
C21_IdentityFirst ==
  [][last'.op \in EngineOps /\ last'.caller = NoUser =>
       /\ last'.outcome = "threw"
       /\ last'.err = "auth"
       /\ UNCHANGED <<remoteVars, cacheVars, pendVars>>]_vars

\* C21 fails: getUserChats of src/unnamed/part_001, called without a
\* session, has returned an empty list instead of failing.
C21_AnonymousListReturned ==
  /\ impl = "p1"
  /\ last.op = "getUserChats"
  /\ last.caller = NoUser
  /\ last.outcome = "returned"
  /\ last.list = <<>>

\* C22: every cached chat has its creator among its participants, whatever
\* createChat, addGroupMember, removeGroupMember and getUserChats did.
C22_CreatorIsParticipant ==
  \A id \in DOMAIN chats : chats[id].created_by \in chats[id].participants

\* C22 fails: the creator of a group has removed itself with
\* removeGroupMember.
C22_CreatorRemoved ==
  /\ last.op = "removeGroupMember"
  /\ last.outcome = "returned"
  /\ chats[last.chat].created_by = last.caller
  /\ last.caller \notin chats[last.chat].participants

\* The ids of the cached Messages of chat chatId.
CachedIds(chatId) ==
  {MessagesOf(messages, chatId)[i].id : i \in 1..Len(MessagesOf(messages, chatId))}

\* C23: a PendingMessage exists iff its Message is not yet confirmed: every
\* PendingMessage has its Message in the cached list of its chat, no Message
\* whose remote insert succeeded has a PendingMessage, and a sendMessage
\* that fails before the local append leaves no PendingMessage.
C23_PendingIffUnconfirmed ==
  /\ \A id \in Range(pendingMessages) : id \in CachedIds(pmObj[id].chat_id)
  /\ \A r \in rMsgs : r.id \notin Range(pendingMessages)
  /\ last.op = "sendMessage" /\ last.caller # NoUser /\ ~last.appended =>
       PendingCount(last.msg) = 0

\* C23 fails: a sendMessage refused before the local append (chat not
\* found, not a participant, encryption error) has queued a PendingMessage
\* for a Message that is in no cached list.
C23_PendingWithoutMessage ==
  /\ last.op = "sendMessage"
  /\ last.err \in {"notfound", "participant", "encrypt"}
  /\ ~last.appended
  /\ PendingCount(last.msg) = 1
  /\ last.msg \notin CachedIds(last.chat)

\* C24: every PendingMessage in the queue has 0 <= retry_count < 5: an
\* entry that reaches the bound is removed by the pass that reached it.
C24_RetryCountBelowBound ==
  \A id \in Range(pendingMessages) :
    pmObj[id].retry_count >= 0 /\ pmObj[id].retry_count < MaxRetries

\* C24 fails: the pass that raised an entry to retry_count 5 has ended and
\* the entry is still queued, in memory and in the pending blob.
C24_KeptAtBound ==
  /\ NoPassRunning
  /\ \E id \in Range(pendingMessages) :
       /\ pmObj[id].retry_count = MaxRetries
       /\ pmObj[id] \in Range(stPending)

\* C25: in every sendMessage execution encryptMessage has completed before
\* the remote insert is attempted, and when encryptMessage fails no write
\* to the Remote Store is attempted for the message.
C25_EncryptBeforeInsert ==
  last.op = "sendMessage" =>
    /\ last.ins # "none" => last.enc /\ last.err # "encrypt"
    /\ last.err = "encrypt" => last.ins = "none" /\ ~last.wrote

\* C25 happens: a participant without keys has sent with src/lib/chat.ts,
\* encryptMessage threw and no insert was attempted.
C25_Witness ==
  /\ impl = "lib"
  /\ last.op = "sendMessage"
  /\ last.member
  /\ last.enc
  /\ last.err = "encrypt"
  /\ last.ins = "none"
  /\ \A r \in rMsgs : r.id # last.msg

\* A ref made of digits only.
PurelyNumeric(r) ==
  RefText[r] # <<>> /\ \A i \in 1..Len(RefText[r]) : RefText[r][i] \in Digits

\* The profile a ref stands for: a purely numeric ref is a short id, any
\* other ref a canonical id.
Resolvable(r) ==
  IF PurelyNumeric(r)
  THEN \E u \in Users : parseInt(RefText[ShortIdOf[u]]) = parseInt(RefText[r])
  ELSE r \in Users

\* C26: createChat with an empty ref list, or with a ref that cannot be
\* resolved (a purely numeric ref by short id, any other by canonical id),
\* fails with the not-found or the no-participant error, inserts no Chat row
\* and leaves the LocalCache unchanged.
C26_UnresolvedRejected ==
  /\ last.op = "createChat"
  /\ last.caller # NoUser
  /\ last.refs = <<>> \/ \E i \in 1..Len(last.refs) : ~Resolvable(last.refs[i])
  => /\ last.outcome = "threw"
     /\ last.err \in {"noparticipants", "notfound"}
     /\ last.created = 0
     /\ last.clean

\* C26 fails: the ref "2.5" is no short id and no canonical id, yet it was
\* resolved through parseInt to the profile with short id 2 and a chat with
\* that profile was inserted.
C26_FractionResolved ==
  /\ last.op = "createChat"
  /\ last.refs = <<"2.5">>
  /\ last.others = <<"b">>
  /\ last.created \in DOMAIN rChats
  /\ "b" \in UsersOf(rParts, last.created)

\* C27: a chat createChat produced has a name only if it is a group, in the
\* Remote Store row and in the cached Chat: the name passed with a direct
\* chat is discarded.
C27_NameOnlyForGroups ==
  /\ \A id \in DOMAIN rChats : ~rChats[id].is_group => rChats[id].name = NoName
  /\ \A id \in DOMAIN chats : ~chats[id].is_group => chats[id].name = NoName

\* C27 happens: createChat was called for a direct chat with a name, and
\* the row and the cached Chat have none.
C27_Witness ==
  /\ last.op = "createChat"
  /\ ~last.group
  /\ last.created \in DOMAIN rChats
  /\ last.created \in DOMAIN chats
  /\ rChats[last.created].name = NoName
  /\ chats[last.created].name = NoName

\* C28: a chat that createChat produced with isGroup = false has exactly
\* two participants, in the Remote Store and in the cached Chat.
C28_DirectHasTwo ==
  CreatedChat /\ ~last.group =>
    /\ Cardinality(UsersOf(rParts, last.created)) = 2
    /\ Cardinality(chats[last.created].participants) = 2

\* C28 fails: createChat with two refs and isGroup = false has produced a
\* non-group chat with three participants.
C28_DirectWithThree ==
  /\ CreatedChat
  /\ ~last.group
  /\ Len(last.refs) = 2
  /\ ~rChats[last.created].is_group
  /\ Cardinality(UsersOf(rParts, last.created)) = 3
  /\ Cardinality(chats[last.created].participants) = 3

\* The ids of the chats in list l.
ListedIds(l) == {l[i].id : i \in 1..Len(l)}

\* C29: after a getUserChats answered by the Remote Store, every returned
\* chat is in the LocalCache under its id with the values fetched (the row
\* and its participants), and the cached chats that are not in the result
\* and all cached message lists are as they were.
C29_UpsertById ==
  [][last'.op = "getUserChats" /\ last'.caller # NoUser /\ last'.fault = "none"
       /\ last'.list # <<>> =>
       /\ \A id \in ListedIds(last'.list) :
            /\ id \in DOMAIN chats'
            /\ id \in DOMAIN rChats
            /\ chats'[id].is_group = rChats[id].is_group
            /\ chats'[id].name = rChats[id].name
            /\ chats'[id].created_by = rChats[id].created_by
            /\ chats'[id].updated_at = rChats[id].updated_at
            /\ chats'[id].participants = UsersOf(rParts, id)
       /\ \A id \in DOMAIN chats \ ListedIds(last'.list) :
            id \in DOMAIN chats' /\ chats'[id] = chats[id]
       /\ messages' = messages]_vars

\* C29 happens: getUserChats has hydrated the caller's chat from the Remote
\* Store while the cache holds a chat of another user of the device.
C29_Witness ==
  /\ last.op = "getUserChats"
  /\ last.caller = "a"
  /\ last.fault = "none"
  /\ ListedIds(last.list) = {1}
  /\ chats[1].participants = UsersOf(rParts, 1)
  /\ 2 \in DOMAIN chats

\* C30: a participant whose left_at is set is excluded from active
\* membership: the participant sets that a remote-backed getUserChats puts
\* into the cache hold only users whose row has left_at unset, the list it
\* returns holds no chat the caller has left, and the direct-chat search of
\* createChat matches only a chat with two such participants.
C30_LeftExcluded ==
  /\ last.op = "getUserChats" /\ last.outcome = "returned"
       /\ last.caller # NoUser /\ last.fault = "none"
     => \A id \in ListedIds(last.list) :
          /\ chats[id].participants \subseteq ActiveUsersOf(rParts, id)
          /\ <<id, last.caller>> \notin rLeft
  /\ last.op = "createChat" /\ last.err = "reference274"
     => \E c \in DOMAIN rChats :
          ~rChats[c].is_group /\ Cardinality(ActiveUsersOf(rParts, c)) = 2

\* The claim fails: c has left direct chat 2, yet getUserChats returns the
\* chat to c and caches it with c among its participants.
C30_LeftChatListed ==
  /\ last.op = "getUserChats"
  /\ last.outcome = "returned"
  /\ last.fault = "none"
  /\ last.caller = "c"
  /\ <<2, "c">> \in rLeft
  /\ 2 \in ListedIds(last.list)
  /\ "c" \in chats[2].participants

C32_KeyFailureIsFatal ==
  [][/\ last'.op = "register" /\ last'.fault # "ok" /\ last'.created = 1
        /\ last'.err # "session"
        => /\ last'.outcome = "threw"
           /\ rProfiles' = rProfiles
           /\ stAuth' = stAuth
           /\ currentUser' = NoUser
     /\ last'.op = "register" /\ last'.err = "insert"
        => /\ last'.outcome = "threw"
           /\ stAuth' = stAuth
           /\ ~keys' /\ currentUser' = NoUser]_vars

\* C32 happens: the registration of a, who has a session and no profile, has
\* failed because generateKeyPair yielded no private key.
C32_Witness ==
  /\ last.op = "register"
  /\ last.err = "keygen"
  /\ last.fault = "noprivate"
  /\ last.caller = "a"
  /\ session = "a"
  /\ "a" \notin rProfiles
  /\ stAuth = NoAuthStore

\* C33: the sendMessage call of a retry pass adds no entry to the pending
\* queue: the ids queued after it are among those queued before it, also
\* when the re-send fails.
C33_RetryAddsNoEntry ==
  last.op = "retry" => Range(pendingMessages) \subseteq last.held

\* The claim fails: a failed re-send has queued a new entry, under a fresh
\* id and with retry_count 0, next to the entry it retried.
C33_FreshEntryQueued ==
  /\ last.op = "retry"
  /\ last.msg \in Range(pendingMessages)
  /\ pmObj[last.msg].retry_count = 1
  /\ last.created \in Range(pendingMessages) \ last.held
  /\ pmObj[last.created].retry_count = 0

\* C34: a retry re-sends the message under its original id: it appends no
\* second Message to the cached list of the chat, and a row it writes to the
\* Remote Store carries the id of the entry it retries.
C34_RetryUnderOriginalId ==
  last.op = "retry"
    => /\ last.outcome # "appended"
       /\ last.created \in {0, last.msg}
       /\ last.wrote => \E r \in rMsgs : r.id = last.msg

\* The claim fails: the re-send of entry last.msg has appended a second
\* Message, under a new id, after the one the user's call appended.
C34_SecondCopyAppended ==
  /\ last.op = "retry"
  /\ last.outcome = "appended"
  /\ last.created # last.msg
  /\ {last.msg, last.created} \subseteq CachedIds(1)
  /\ \A i \in 1..Len(messages[1]) : messages[1][i].content = "hi"

\* C35: once the user sends no more, the pending queue becomes empty and
\* stays so under fair retry ticks, and it never holds more entries than
\* the user has made sendMessage calls that failed.
C35_QueueDrains ==
  /\ [](Len(pendingMessages) <= MaxUserSends)
  /\ <>[](pendingMessages = <<>>)

\* The claim fails: after the user's only send the queue holds more entries
\* than that one call can have left.
C35_QueueOutgrowsSends ==
  /\ nextMsg > MaxUserSends
  /\ Len(pendingMessages) > MaxUserSends
  /\ last.op = "retry"

\* C36: from the return of destroy, clearPendingMessages or clearAllChats
\* until the next sendMessage call of the user, a retry pass that was in
\* progress starts no sendMessage attempt and puts no entry into the pending
\* map or the pending blob: the queue stays empty.
C36_StoppedPassIsQuiet ==
  [][scen = "cleared" /\ scen' = "cleared"
       => /\ \A p \in Slots : passes'[p].cur \in {0, passes[p].cur}
          /\ pendingMessages' = <<>>
          /\ stPending' \in {stPending, <<>>}]_vars

\* The claim fails: after destroy the pass that was in progress has put the
\* entry it was re-sending back into the pending map.
C36_EntryPutBack ==
  /\ scen = "cleared"
  /\ ~retryTimer
  /\ last.op = "retry"
  /\ last.held = {}
  /\ last.msg \in Range(pendingMessages)

\* C37: getChatMessages(chatId, limit) returns at most limit messages, newest
\* first, and leaves the cached message lists as they were, in content and
\* in order.
C37_ReadOnly ==
  [][last'.op = "getChatMessages"
       => /\ Len(last'.list) <= last'.ret
          /\ \A i, j \in 1..Len(last'.list) :
               i < j => last'.list[i].created_at >= last'.list[j].created_at
          /\ messages' = messages]_vars

\* The claim fails: after getChatMessages the cached list of chat 1 holds the
\* later message before the earlier one.
C37_CacheReordered ==
  /\ last.op = "getChatMessages"
  /\ last.chat = 1
  /\ Len(messages[1]) = 2
  /\ messages[1][1].id > messages[1][2].id
  /\ messages[1][1].created_at > messages[1][2].created_at

\* The sender of the cached Message with this id: the identity that was
\* current when sendMessage was called for it.
SendersOf(id) ==
  {m.sender_id : m \in {n \in UNION {Range(messages[c]) : c \in DOMAIN messages} :
                           n.id = id}}

C39_MemberChangeSurvives ==
  /\ last.op = "getUserChats" /\ last.outcome = "returned"
  /\ last.fault = "none" /\ last.caller # NoUser
  /\ last.chat \in DOMAIN chats
    => /\ last.was = "addGroupMember"
            => last.held \subseteq chats[last.chat].participants
       /\ last.was = "removeGroupMember"
            => last.held \cap chats[last.chat].participants = {}

\* The claim fails: a removed c from group chat 1, and the getUserChats call
\* that followed has put c back into the cached chat.
C39_RemovalReverted ==
  /\ last.op = "getUserChats"
  /\ last.fault = "none"
  /\ last.was = "removeGroupMember"
  /\ last.chat = 1
  /\ last.held = {"c"}
  /\ 1 \in ListedIds(last.list)
  /\ "c" \in chats[1].participants

====
